---------------------------- MODULE Spec2Model ----------------------------
(***************************************************************************)
(* Scene-processing workflow of NEXT-Gini_AI: the Inngest functions under  *)
(* src/lib/inngest/functions, the D-ID webhook route, the process-scenes   *)
(* route and the fix-rendering-status script, over the Project / Scene /   *)
(* Asset / RenderJob rows they share.                                      *)
(*                                                                         *)
(* One action per step.run / step.sendEvent / step.waitForEvent of a       *)
(* function (a step.sleep is folded into the step that follows it: it      *)
(* changes no row).  Time is not modelled: a waitForEvent may time out at  *)
(* any moment at which it has not yet been resumed by its event.           *)
(***************************************************************************)
EXTENDS Integers, Sequences, FiniteSets, TLC

VARIABLES
    project,     \* the Project row
    scenes,      \* Scene rows, indexed by position (the scene id)
    assets,      \* Asset rows, in creation order (the asset id is the index)
    renderJobs,  \* RenderJob rows, in creation order
    talks,       \* D-ID talks (external); the talk id is the index
    ops,         \* Veo long-running operations (external)
    bus,         \* events sent to Inngest and not yet delivered
    sp,          \* sceneProcessor invocation, per scene
    tg,          \* ttsGenerator invocation, per scene
    ag,          \* avatarGenerator invocation, per scene
    ap,          \* avatarPolling invocation, per scene
    bgg,         \* backgroundGenerator invocation, per scene
    vg,          \* veoVideoGenerator invocation, per scene
    vp,          \* veoVideoPolling invocation, per scene
    adg,         \* avatarDesignGenerator invocation (per project)
    vc,          \* videoCompositor invocation (per project)
    vr,          \* videoRender invocation (per project)
    sg,          \* scriptGenerator invocation (per project)
    obs          \* observations: what was sent, delivered, dropped, called

vars == <<project, scenes, assets, renderJobs, talks, ops, bus,
          sp, tg, ag, ap, bgg, vg, vp, adg, vc, vr, sg, obs>>

-----------------------------------------------------------------------------
(* Bounds of the model *)

\* scenes of the project in the stage-sequencing specification
NumScenes == 1
\* calls of the process-scenes route
MaxStarts == 1
\* deliveries of the D-ID webhook per talk
MaxWebhooks == 2
MaxComposeRequests == 2
ComposeScenes == 2
\* scenes of a project whose orchestrators chain
ChainScenes == 2
\* the character budget of validateAndSummarizeScript (60 in the source)
SummaryBudget == 3
\* the character budget of validateAndTruncateScript (45 in the source)
TruncateBudget == 2
\* characters of the script of a reply of the script model that has one scene
MaxScriptChars == 4
\* characters of the two scripts together of a reply that has two scenes
MaxReplyChars == 3
\* maxAttempts the avatar stage passes to its polling loop (20 in the source)
AvatarMaxAttempts == 2
\* maxAttempts the Veo stage passes to its polling loop (120 in the source)
VeoMaxAttempts == 2

(* Program constants *)

\* retries: 2 of ttsGenerator, avatarGenerator, backgroundGenerator,
\* veoVideoGenerator and avatarDesignGenerator
Retries == 2
\* a relation that is not set (null)
NoId == 0

Priorities == {"low", "medium", "high"}

Scenes == DOMAIN scenes

-----------------------------------------------------------------------------
(* The durable step executor (step.run memoisation of Inngest) *)

\* an invocation that does not run
Idle == [pc |-> "idle", tries |-> 0, recorded |-> {}, job |-> NoId,
         attempt |-> 0, max |-> 0, asset |-> NoId, res |-> "none",
         image |-> "none", timeouts |-> {}, retried |-> FALSE,
         submits |-> 0, creates |-> 0,
         reruns |-> 0]

Free(inv) == inv.pc \in {"idle", "done", "failed"}

RECURSIVE FirstMissing(_, _, _)
FirstMissing(steps, recorded, i) ==
    IF i > Len(steps) THEN "done"
    ELSE IF steps[i] \in recorded THEN FirstMissing(steps, recorded, i + 1)
    ELSE steps[i]

\* variant: a re-executed invocation starts over at its first step
ResumeAtFirstStep(steps, recorded) == steps[1]
\* where a re-executed invocation picks up: a step whose result is recorded
\* is not run again, the function body goes on at the first step without one
ResumePoint(steps, recorded) == FirstMissing(steps, recorded, 1)

IndexOf(steps, name) == CHOOSE i \in 1..Len(steps) : steps[i] = name

\* the step that follows `name` in the function body
After(steps, name) ==
    LET i == IndexOf(steps, name)
    IN IF i = Len(steps) THEN "done" ELSE steps[i + 1]

\* the step `name` returned: its result is recorded
StepOk(inv, steps, name) ==
    [inv EXCEPT !.pc = After(steps, name),
                !.recorded = @ \cup {name},
                !.tries = 0,
                !.reruns = @ + (IF name \in inv.recorded THEN 1 ELSE 0)]

\* the current step threw: nothing is recorded, the invocation is re-executed
\* until the retry budget is spent
StepThrow(inv, steps, retries) ==
    IF inv.tries < retries
    THEN [inv EXCEPT !.tries = @ + 1, !.retried = TRUE,
                     !.pc = ResumePoint(steps, inv.recorded)]
    ELSE [inv EXCEPT !.pc = "failed"]

\* videoCompositor's invocation: the project it fetched, the error it threw
\* and the scene data it prepared
VcIdle == [pc |-> "idle", recorded |-> {}, snap |-> <<>>,
           error |-> "none", notReady |-> 0, sceneData |-> <<>>]

VcSteps ==
    <<"fetch-project-scenes", "validate-scenes-ready",
      "update-project-status-rendering", "prepare-scene-data",
      "save-composition-metadata", "trigger-video-render">>

VrSteps == <<"download-scene-assets", "execute-ffmpeg">>

\* scriptGenerator's invocation: the script that generate-script returned
\* and the reply of the model it was made from, or the entries of the error
\* that generateScript threw and the scenes of the reply that had a
\* greeting, an explanatory phrase or a parenthesis
SgIdle == [pc |-> "idle", tries |-> 0, recorded |-> {}, retried |-> FALSE,
           reruns |-> 0, reply |-> <<>>, script |-> <<>>,
           invalidScenes |-> <<>>, forbidden |-> {}]

SgSteps ==
    <<"fetch-project-and-document", "download-pdf", "convert-to-base64",
      "generate-script", "create-scenes", "update-project-status",
      "trigger-scene-processing">>

\* a fresh invocation started by an event
Started(steps, e) ==
    [Idle EXCEPT !.pc = steps[1], !.job = e.job, !.attempt = e.attempt,
                 !.max = e.max]

-----------------------------------------------------------------------------
(* Scene scripts and their validation.  A script is a sequence of          *)
(* characters: a letter, a blank, a full stop, the two parentheses, and     *)
(* "G" and "E" which stand for a greeting and for an explanatory phrase of  *)
(* the lists in generateScript.                                             *)

Chars == {"a", " ", ".", "(", ")", "G", "E"}

\* script.replace(/\s/g, "")
NoSpace(script) == SelectSeq(script, LAMBDA c : c # " ")

\* script.trim()
RECURSIVE Trim(_)
Trim(script) ==
    IF script = <<>> THEN <<>>
    ELSE IF Head(script) = " " THEN Trim(Tail(script))
    ELSE IF script[Len(script)] = " "
    THEN Trim(SubSeq(script, 1, Len(script) - 1))
    ELSE script

\* generateScript's first treatment of a scene script: with a parenthesis in
\* it, replace(/\([^)]*\)/g, '').trim().replace(/\s+/g, ' ')
RemoveParens(script) ==
    LET RECURSIVE Strip(_)
        Strip(t) ==
            IF t = <<>> THEN <<>>
            ELSE LET close == {j \in 2..Len(t) : t[j] = ")"}
                 IN IF Head(t) = "(" /\ close # {}
                    THEN LET j == CHOOSE k \in close : \A l \in close : k <= l
                         IN Strip(SubSeq(t, j + 1, Len(t)))
                    ELSE <<Head(t)>> \o Strip(Tail(t))
        RECURSIVE Squeeze(_)
        Squeeze(t) ==
            IF Len(t) < 2 THEN t
            ELSE IF t[1] = " " /\ t[2] = " " THEN Squeeze(Tail(t))
            ELSE <<Head(t)>> \o Squeeze(Tail(t))
    IN IF \E i \in 1..Len(script) : script[i] \in {"(", ")"}
       THEN Squeeze(Trim(Strip(script)))
       ELSE script

\* variant: the script is returned without its white space
SummarizeStripsBlanks(script, answer) == NoSpace(script)
\* validateAndSummarizeScript(script), `answer` being what the summarising
\* model replied (an empty text when it gave none)
ValidateAndSummarizeScript(script, answer) ==
    LET summarized == Trim(answer)
    IN IF Len(NoSpace(script)) <= SummaryBudget THEN script
       ELSE IF summarized = <<>>
       THEN SubSeq(NoSpace(script), 1, SummaryBudget)
       ELSE IF Len(NoSpace(summarized)) > SummaryBudget
       THEN SubSeq(NoSpace(summarized), 1, SummaryBudget)
       ELSE summarized

\* script.split(/([.!?])\s*/), each text put together with the delimiter
\* that follows it: sentences[i] + (sentences[i + 1] || '')
RECURSIVE Sentences(_, _)
Sentences(script, text) ==
    IF script = <<>> THEN <<text>>
    ELSE IF Head(script) = "."
    THEN LET RECURSIVE SkipBlanks(_)
             SkipBlanks(t) ==
                 IF t # <<>> /\ Head(t) = " " THEN SkipBlanks(Tail(t)) ELSE t
         IN <<text \o <<".">>>> \o Sentences(SkipBlanks(Tail(script)), <<>>)
    ELSE Sentences(Tail(script), text \o <<Head(script)>>)

\* validateAndTruncateScript(script, sceneNumber)
ValidateAndTruncateScript(script) ==
    LET sentences == Sentences(script, <<>>)
        RECURSIVE Keep(_, _, _)
        Keep(i, result, currentLength) ==
            IF i > Len(sentences) THEN result
            ELSE LET sentenceLength == Len(NoSpace(sentences[i]))
                 IN IF currentLength + sentenceLength <= TruncateBudget
                    THEN Keep(i + 1, result \o sentences[i] \o <<" ">>,
                              currentLength + sentenceLength)
                    ELSE result
        result == Keep(1, <<>>, 0)
    IN IF Len(NoSpace(script)) <= TruncateBudget THEN script
       ELSE IF Trim(result) = <<>>
       THEN Trim(Trim(SubSeq(script, 1, TruncateBudget)) \o <<".">>)
       ELSE Trim(result)

-----------------------------------------------------------------------------
(* Events *)

Ev(name, scene, job, attempt, max) ==
    [name |-> name, scene |-> scene, job |-> job, attempt |-> attempt,
     max |-> max]

\* the function subscribed to an event name ({ event: ... } of createFunction)
Subscriber(name) ==
    CASE name = "scene/process.requested" -> "sceneProcessor"
      [] name = "tts/generation.requested" -> "ttsGenerator"
      [] name = "avatar/generation.requested" -> "avatarGenerator"
      [] name = "avatar/polling.requested" -> "avatarPolling"
      [] name = "background/generation.requested" -> "backgroundGenerator"
      [] name = "veo/generation.requested" -> "veoVideoGenerator"
      [] name = "veo/polling.requested" -> "veoVideoPolling"
      [] name = "avatar-design/generation.requested" -> "avatarDesignGenerator"
      [] name = "video/composition.requested" -> "videoCompositor"
      [] name = "video/render.requested" -> "videoRender"
      [] name = "script/generation.requested" -> "scriptGenerator"
      [] OTHER -> "none"

Send(e) == bus' = bus \cup {e}

Note(field, x) == [obs EXCEPT ![field] = @ \cup {x}]

-----------------------------------------------------------------------------
(* Rows *)

NewScene(priority, number) ==
    [priority |-> priority, sceneNumber |-> number,
     ttsStatus |-> "pending", avatarStatus |-> "pending",
     backgroundStatus |-> "pending", script |-> <<>>,
     audioAssetId |-> NoId, avatarAssetId |-> NoId, backgroundAssetId |-> NoId]

NewProject(mode) ==
    [status |-> "script_generated", avatarDesignMode |-> mode,
     avatarDesignStatus |-> "pending", fallbackToPreset |-> FALSE,
     deletedAt |-> FALSE,
     compositionData |-> <<>>, hasCompositionData |-> FALSE]

NoObs ==
    [dropped |-> {}, starts |-> 0, ttsCompleted |-> {}, bgStarts |-> {},
     composeSent |-> 0, composeRequested |-> 0, compositorRuns |-> 0,
     designEvents |-> 0,
     completedEvents |-> {}, scriptRequests |-> 0, replyScenes |-> 0]

IdleAll(n) == [s \in 1..n |-> Idle]

\* a project whose script has been generated: its scenes exist, nothing of the
\* pipeline has run
InitWith(n) ==
    /\ \E mode \in {"preset", "custom"} : project = NewProject(mode)
    /\ \E prio \in [1..n -> Priorities] :
          scenes = [s \in 1..n |-> NewScene(prio[s], s)]
    /\ assets = <<>>
    /\ renderJobs = <<>>
    /\ talks = <<>>
    /\ ops = <<>>
    /\ bus = {}
    /\ sp = IdleAll(n) /\ tg = IdleAll(n) /\ ag = IdleAll(n)
    /\ ap = IdleAll(n) /\ bgg = IdleAll(n) /\ vg = IdleAll(n)
    /\ vp = IdleAll(n)
    /\ adg = Idle /\ vc = VcIdle /\ vr = Idle /\ sg = SgIdle
    /\ obs = NoObs

Init == InitWith(NumScenes)

-----------------------------------------------------------------------------
(* POST /api/projects/[id]/process-scenes *)

ProcessScenes ==
    /\ obs.starts < MaxStarts
    /\ Scenes # {}
    /\ bus' = bus
         \cup (IF project.avatarDesignMode = "custom"
                  /\ project.avatarDesignStatus # "completed"
               THEN {Ev("avatar-design/generation.requested", NoId, NoId, 0, 0)}
               ELSE {})
         \cup {Ev("scene/process.requested", 1, NoId, 0, 0)}
    /\ obs' = [obs EXCEPT !.starts = @ + 1]
    /\ UNCHANGED <<project, scenes, assets, renderJobs, talks, ops,
                   sp, tg, ag, ap, bgg, vg, vp, adg, vc, vr,
                   sg>>

-----------------------------------------------------------------------------
(* sceneProcessor *)

SpSteps ==
    <<"fetch-scene", "check-avatar-design-status", "wait-for-avatar-design",
      "trigger-tts", "wait-for-tts", "trigger-avatar", "wait-for-avatar",
      "trigger-background", "wait-for-background", "trigger-next">>

SpWaits == {"wait-for-avatar-design", "wait-for-tts", "wait-for-avatar",
            "wait-for-background"}

\* the waitForEvent step of `waiters` that the event `name` resumes
WaitOf(name) ==
    CASE name = "avatar-design/completed" -> "wait-for-avatar-design"
      [] name = "tts/completed" -> "wait-for-tts"
      [] name = "avatar/completed" -> "wait-for-avatar"
      [] name = "background/completed" -> "wait-for-background"
      [] OTHER -> "none"

\* sending a completion event resumes the invocations that wait for it now
\* (match: data.sceneId, or data.projectId for the avatar design)
Resumed(name, keys) ==
    [s \in Scenes |->
        IF s \in keys /\ sp[s].pc = WaitOf(name)
        THEN StepOk(sp[s], SpSteps, WaitOf(name))
        ELSE sp[s]]

SpOnly == UNCHANGED <<project, scenes, assets, renderJobs, talks, ops, bus,
                      tg, ag, ap, bgg, vg, vp, adg, vc, vr, obs,
                      sg>>

\* step.run("fetch-scene"): the scene and its project's scenes by position
SpFetchScene(s) ==
    /\ sp[s].pc = "fetch-scene"
    /\ sp' = [sp EXCEPT ![s] = StepOk(@, SpSteps, "fetch-scene")]
    /\ SpOnly

\* needsAvatarWait
NeedsAvatarWait(p) ==
    p.avatarDesignMode = "custom" /\ p.avatarDesignStatus # "completed"

SpCheckAvatarDesign(s) ==
    /\ sp[s].pc = "check-avatar-design-status"
    /\ sp' = [sp EXCEPT ![s] =
            IF NeedsAvatarWait(project)
            THEN StepOk(@, SpSteps, "check-avatar-design-status")
            ELSE [StepOk(@, SpSteps, "check-avatar-design-status")
                     EXCEPT !.pc = "trigger-tts"]]
    /\ SpOnly

\* a waitForEvent returns null at its timeout; no call site looks at the
\* result, the function body goes on
SpTimeout(s) ==
    /\ sp[s].pc \in SpWaits
    /\ sp' = [sp EXCEPT ![s] =
            [StepOk(@, SpSteps, sp[s].pc)
                EXCEPT !.timeouts = @ \cup {sp[s].pc}]]
    /\ SpOnly

SpSend(s, step, name) ==
    /\ sp[s].pc = step
    /\ sp' = [sp EXCEPT ![s] = StepOk(@, SpSteps, step)]
    /\ Send(Ev(name, s, NoId, 0, 0))
    /\ UNCHANGED <<project, scenes, assets, renderJobs, talks, ops,
                   tg, ag, ap, bgg, vg, vp, adg, vc, vr, obs,
                   sg>>

SpTriggerTts(s) == SpSend(s, "trigger-tts", "tts/generation.requested")
SpTriggerAvatar(s) == SpSend(s, "trigger-avatar", "avatar/generation.requested")
SpTriggerBackground(s) ==
    SpSend(s, "trigger-background", "background/generation.requested")

\* variant: the scene after the next one
NextSceneSkipping(s) == IF s + 2 \in Scenes THEN s + 2 ELSE NoId
\* scenes[currentIndex + 1] of the project's scenes ordered by position
NextScene(s) == IF s + 1 \in Scenes THEN s + 1 ELSE NoId

\* step.sleep("rate-limit"), then trigger-next-scene or
\* trigger-video-compositor
SpTriggerNext(s) ==
    /\ sp[s].pc = "trigger-next"
    /\ sp' = [sp EXCEPT ![s] = StepOk(@, SpSteps, "trigger-next")]
    /\ IF NextScene(s) # NoId
       THEN /\ Send(Ev("scene/process.requested", NextScene(s), NoId, 0, 0))
            /\ obs' = obs
       ELSE /\ Send(Ev("video/compose.requested", NoId, NoId, 0, 0))
            /\ obs' = [obs EXCEPT !.composeSent = @ + 1]
    /\ UNCHANGED <<project, scenes, assets, renderJobs, talks, ops,
                   tg, ag, ap, bgg, vg, vp, adg, vc, vr,
                   sg>>

-----------------------------------------------------------------------------
(* ttsGenerator *)

TgSteps ==
    <<"fetch-scene", "update-tts-status-generating", "generate-tts",
      "upload-audio", "create-asset", "update-scene-audio-asset">>

\* the steps that call ElevenLabs and the blob store
TgCalls == {"generate-tts", "upload-audio"}

TgOnly == UNCHANGED <<project, scenes, assets, renderJobs, talks, ops, bus,
                      sp, ag, ap, bgg, vg, vp, adg, vc, vr, obs,
                      sg>>

TgFetchScene(s) ==
    /\ tg[s].pc = "fetch-scene"
    /\ tg' = [tg EXCEPT ![s] = StepOk(@, TgSteps, "fetch-scene")]
    /\ TgOnly

TgStatusGenerating(s) ==
    /\ tg[s].pc = "update-tts-status-generating"
    /\ scenes' = [scenes EXCEPT ![s].ttsStatus = "generating"]
    /\ tg' = [tg EXCEPT ![s] = StepOk(@, TgSteps, "update-tts-status-generating")]
    /\ UNCHANGED <<project, assets, renderJobs, talks, ops, bus,
                   sp, ag, ap, bgg, vg, vp, adg, vc, vr, obs,
                   sg>>

\* generateTTS(scene.script), then uploadFromBuffer: each returns
TgCall(s) ==
    /\ tg[s].pc \in TgCalls
    /\ tg' = [tg EXCEPT ![s] =
            [StepOk(@, TgSteps, tg[s].pc)
                EXCEPT !.submits = @ + (IF tg[s].pc = "generate-tts" THEN 1 ELSE 0)]]
    /\ TgOnly

\* any step may throw (the provider, the storage or the database fails)
TgStepThrows(s) ==
    /\ tg[s].pc \in {TgSteps[i] : i \in 1..Len(TgSteps)}
    /\ tg' = [tg EXCEPT ![s] = StepThrow(@, TgSteps, Retries)]
    /\ TgOnly

TgCreateAsset(s) ==
    /\ tg[s].pc = "create-asset"
    /\ assets' = Append(assets, [kind |-> "audio", scene |-> s, job |-> NoId])
    /\ tg' = [tg EXCEPT ![s] =
            [StepOk(@, TgSteps, "create-asset")
                EXCEPT !.asset = Len(assets) + 1, !.creates = @ + 1]]
    /\ UNCHANGED <<project, scenes, renderJobs, talks, ops, bus,
                   sp, ag, ap, bgg, vg, vp, adg, vc, vr, obs,
                   sg>>

\* the last step: no tts/completed event is sent
TgUpdateScene(s) ==
    /\ tg[s].pc = "update-scene-audio-asset"
    /\ scenes' = [scenes EXCEPT ![s].audioAssetId = tg[s].asset,
                                ![s].ttsStatus = "completed"]
    /\ tg' = [tg EXCEPT ![s] = StepOk(@, TgSteps, "update-scene-audio-asset")]
    /\ obs' = Note("ttsCompleted", s)
    /\ UNCHANGED <<project, assets, renderJobs, talks, ops, bus,
                   sp, ag, ap, bgg, vg, vp, adg, vc, vr,
                   sg>>

-----------------------------------------------------------------------------
(* avatarGenerator *)

AgSteps ==
    <<"fetch-scene-data", "determine-avatar-url",
      "update-avatar-status-generating", "create-did-talk",
      "create-render-job", "start-avatar-polling">>

AgOnly == UNCHANGED <<project, scenes, assets, renderJobs, talks, ops, bus,
                      sp, tg, ap, bgg, vg, vp, adg, vc, vr, obs,
                      sg>>

\* variant: fetch-scene-data accepts a scene without audio
AudioNeverMissing(scene) == FALSE
\* fetch-scene-data throws when the scene has no audio Asset
AudioMissing(scene) == scene.audioAssetId = NoId

\* project.assets where kind = "avatar_design", take 1
HasAvatarDesign(as) == \E i \in 1..Len(as) : as[i].kind = "avatar_design"

AgFetchSceneData(s) ==
    /\ ag[s].pc = "fetch-scene-data"
    /\ ag' = [ag EXCEPT ![s] =
            IF AudioMissing(scenes[s])
            THEN StepThrow(@, AgSteps, Retries)
            ELSE [StepOk(@, AgSteps, "fetch-scene-data")
                     EXCEPT !.res = IF HasAvatarDesign(assets)
                                    THEN "design" ELSE "no-design"]]
    /\ AgOnly

\* variant: the preset image whatever the project holds
AvatarImageAlwaysPreset(mode, res) == "preset"
\* the custom avatar_design Asset if the project is in custom mode and has
\* one, the preset image otherwise
AvatarImage(mode, res) ==
    IF mode = "custom" /\ res = "design" THEN "custom" ELSE "preset"

AgDetermineAvatarUrl(s) ==
    /\ ag[s].pc = "determine-avatar-url"
    /\ ag' = [ag EXCEPT ![s] =
            [StepOk(@, AgSteps, "determine-avatar-url")
                EXCEPT !.image = AvatarImage(project.avatarDesignMode, ag[s].res)]]
    /\ AgOnly

AgStatusGenerating(s) ==
    /\ ag[s].pc = "update-avatar-status-generating"
    /\ scenes' = [scenes EXCEPT ![s].avatarStatus = "generating"]
    /\ ag' = [ag EXCEPT ![s] =
            StepOk(@, AgSteps, "update-avatar-status-generating")]
    /\ UNCHANGED <<project, assets, renderJobs, talks, ops, bus,
                   sp, tg, ap, bgg, vg, vp, adg, vc, vr, obs,
                   sg>>

\* createTalk(avatarImageUrl, audioUrl, webhookUrl) returns a new talk id
AgCreateTalk(s) ==
    /\ ag[s].pc = "create-did-talk"
    /\ talks' = Append(talks,
            [scene |-> s, image |-> ag[s].image, state |-> "started",
             checks |-> 0, hooks |-> 0,
             ttsStatus |-> scenes[s].ttsStatus,
             ttsWasCompleted |-> s \in obs.ttsCompleted,
             designStatus |-> project.avatarDesignStatus,
             designAsset |-> ag[s].res = "design",
             designEvents |-> obs.designEvents,
             designTimeout |-> "wait-for-avatar-design" \in sp[s].timeouts])
    /\ ag' = [ag EXCEPT ![s] =
            [StepOk(@, AgSteps, "create-did-talk")
                EXCEPT !.job = Len(talks) + 1, !.submits = @ + 1]]
    /\ UNCHANGED <<project, scenes, assets, renderJobs, ops, bus,
                   sp, tg, ap, bgg, vg, vp, adg, vc, vr, obs,
                   sg>>

\* ... or throws
AgStepThrows(s) ==
    /\ ag[s].pc \in {AgSteps[i] : i \in 1..Len(AgSteps)}
    /\ ag' = [ag EXCEPT ![s] = StepThrow(@, AgSteps, Retries)]
    /\ AgOnly

\* the identifier a provider gave to its n-th job: a D-ID talk id, the name of
\* a Veo operation; the two are never equal
ExternalId(provider, n) == <<provider, n>>

\* prisma.renderJob.create: traceId and params are not given
NewRenderJob(s, externalId, provider) ==
    [sceneId |-> s, externalId |-> externalId, provider |-> provider,
     status |-> "processing", traceId |-> NoId, paramsSceneId |-> NoId,
     errorMessage |-> "none"]

AgCreateRenderJob(s) ==
    /\ ag[s].pc = "create-render-job"
    /\ renderJobs' = Append(renderJobs, NewRenderJob(s, ExternalId("did", ag[s].job), "did"))
    /\ ag' = [ag EXCEPT ![s] =
            [StepOk(@, AgSteps, "create-render-job") EXCEPT !.creates = @ + 1]]
    /\ UNCHANGED <<project, scenes, assets, talks, ops, bus,
                   sp, tg, ap, bgg, vg, vp, adg, vc, vr, obs,
                   sg>>

\* the event carries no currentAttempt
AgStartPolling(s) ==
    /\ ag[s].pc = "start-avatar-polling"
    /\ ag' = [ag EXCEPT ![s] = StepOk(@, AgSteps, "start-avatar-polling")]
    /\ Send(Ev("avatar/polling.requested", s, ag[s].job, 0, AvatarMaxAttempts))
    /\ UNCHANGED <<project, scenes, assets, renderJobs, talks, ops,
                   sp, tg, ap, bgg, vg, vp, adg, vc, vr, obs,
                   sg>>

-----------------------------------------------------------------------------
(* D-ID (external): a talk that was created finishes, with or without a    *)
(* result, or fails                                                        *)

DidOutcomes == {"done", "done-no-result", "error"}

DidFinishes(t) ==
    /\ talks[t].state = "started"
    /\ \E o \in DidOutcomes : talks' = [talks EXCEPT ![t].state = o]
    /\ UNCHANGED <<project, scenes, assets, renderJobs, ops, bus,
                   sp, tg, ag, ap, bgg, vg, vp, adg, vc, vr, obs,
                   sg>>

\* getTalkStatus(talkId).status
TalkStatus(state) ==
    CASE state = "started" -> "started"
      [] state = "error" -> "error"
      [] OTHER -> "done"

-----------------------------------------------------------------------------
(* avatarPolling *)

\* const { maxAttempts = 20, currentAttempt = 1 } = event.data
CurrentAttempt(inv) == IF inv.attempt = 0 THEN 1 ELSE inv.attempt

\* the if / else-if chain after update-render-job
AvatarPollingBranch(res, cur, max) ==
    IF res = "done" THEN "completed"
    ELSE IF res = "error" THEN "error"
    ELSE IF cur < max THEN "retry"
    ELSE "timeout"

ApSteps(branch) ==
    <<"check-did-status", "update-render-job">> \o
    (CASE branch = "completed" ->
            <<"fetch-scene", "save-avatar-video", "create-avatar-asset",
              "update-scene-avatar-asset">>
       [] branch = "error" -> <<"mark-avatar-failed">>
       [] branch = "retry" -> <<"retry-polling">>
       [] OTHER -> <<"mark-avatar-timeout">>)

ApBranch(inv) == AvatarPollingBranch(inv.res, CurrentAttempt(inv), inv.max)
ApStepsOf(inv) == ApSteps(ApBranch(inv))

ApOnly == UNCHANGED <<project, scenes, assets, renderJobs, talks, ops, bus,
                      sp, tg, ag, bgg, vg, vp, adg, vc, vr, obs,
                      sg>>

\* step.sleep("wait-before-check", "5s"), then getTalkStatus(talkId);
\* res is "done" only for status done with a resultUrl
ApCheckStatus(s) ==
    /\ ap[s].pc = "check-did-status"
    /\ LET t == ap[s].job
           r == IF talks[t].state = "done-no-result" THEN "done-no-result"
                ELSE TalkStatus(talks[t].state)
       IN /\ talks' = [talks EXCEPT ![t].checks = @ + 1]
          /\ ap' = [ap EXCEPT ![s] =
                [[@ EXCEPT !.res = r] EXCEPT
                    !.pc = "update-render-job",
                    !.recorded = @ \cup {"check-did-status"}]]
    /\ UNCHANGED <<project, scenes, assets, renderJobs, ops, bus,
                   sp, tg, ag, bgg, vg, vp, adg, vc, vr, obs,
                   sg>>

\* variant: every status update writes a new row for the job
UpdateJobsRecreating(jobs, s, externalId, status, message) ==
    Append(jobs, [NewRenderJob(s, externalId, externalId[1])
                    EXCEPT !.status = status])
\* renderJob.updateMany({ where: { sceneId, externalId } })
UpdateJobs(jobs, s, externalId, status, message) ==
    [i \in 1..Len(jobs) |->
        IF jobs[i].sceneId = s /\ jobs[i].externalId = externalId
        THEN [jobs[i] EXCEPT !.status = status,
                !.errorMessage = IF message = "keep" THEN @ ELSE message]
        ELSE jobs[i]]

ApUpdateRenderJob(s) ==
    /\ ap[s].pc = "update-render-job"
    /\ renderJobs' = UpdateJobs(renderJobs, s, ExternalId("did", ap[s].job),
            IF ap[s].res \in {"done", "done-no-result"}
            THEN "completed" ELSE "processing", "keep")
    /\ ap' = [ap EXCEPT ![s] = StepOk(@, ApStepsOf(@), "update-render-job")]
    /\ UNCHANGED <<project, scenes, assets, talks, ops, bus,
                   sp, tg, ag, bgg, vg, vp, adg, vc, vr, obs,
                   sg>>

\* fetch-scene, then uploadFromUrl(resultUrl): each returns
ApCall(s) ==
    /\ ap[s].pc \in {"fetch-scene", "save-avatar-video"}
    /\ ap' = [ap EXCEPT ![s] = StepOk(@, ApStepsOf(@), ap[s].pc)]
    /\ ApOnly

ApCreateAsset(s) ==
    /\ ap[s].pc = "create-avatar-asset"
    /\ assets' = Append(assets,
            [kind |-> "avatar_video", scene |-> s, job |-> ap[s].job])
    /\ ap' = [ap EXCEPT ![s] =
            [StepOk(@, ApStepsOf(@), "create-avatar-asset")
                EXCEPT !.asset = Len(assets) + 1, !.creates = @ + 1]]
    /\ UNCHANGED <<project, scenes, renderJobs, talks, ops, bus,
                   sp, tg, ag, bgg, vg, vp, adg, vc, vr, obs,
                   sg>>

\* the last step of the success path: no avatar/completed event is sent
ApUpdateScene(s) ==
    /\ ap[s].pc = "update-scene-avatar-asset"
    /\ scenes' = [scenes EXCEPT ![s].avatarAssetId = ap[s].asset,
                                ![s].avatarStatus = "completed"]
    /\ ap' = [ap EXCEPT ![s] =
            StepOk(@, ApStepsOf(@), "update-scene-avatar-asset")]
    /\ UNCHANGED <<project, assets, renderJobs, talks, ops, bus,
                   sp, tg, ag, bgg, vg, vp, adg, vc, vr, obs,
                   sg>>

\* mark-avatar-failed / mark-avatar-timeout, then throw new Error(...): the
\* re-executions replay the recorded steps up to the same throw
ApMarkFailed(s) ==
    /\ ap[s].pc \in {"mark-avatar-failed", "mark-avatar-timeout"}
    /\ scenes' = [scenes EXCEPT ![s].avatarStatus = "failed"]
    /\ ap' = [ap EXCEPT ![s] =
            [StepOk(@, ApStepsOf(@), ap[s].pc) EXCEPT !.pc = "failed"]]
    /\ UNCHANGED <<project, assets, renderJobs, talks, ops, bus,
                   sp, tg, ag, bgg, vg, vp, adg, vc, vr, obs,
                   sg>>

ApRetryPolling(s) ==
    /\ ap[s].pc = "retry-polling"
    /\ ap' = [ap EXCEPT ![s] = StepOk(@, ApStepsOf(@), "retry-polling")]
    /\ Send(Ev("avatar/polling.requested", s, ap[s].job,
               CurrentAttempt(ap[s]) + 1, ap[s].max))
    /\ UNCHANGED <<project, scenes, assets, renderJobs, talks, ops,
                   sp, tg, ag, bgg, vg, vp, adg, vc, vr, obs,
                   sg>>

-----------------------------------------------------------------------------
(* POST /api/webhooks/did *)

\* variant: the lookup goes by externalId and takes the row's sceneId
WebhookLookupByExternalId(jobs, didTalkId) ==
    LET found == {i \in 1..Len(jobs) : jobs[i].externalId = ExternalId("did", didTalkId)}
    IN IF found = {} THEN [job |-> NoId, sceneId |-> NoId]
       ELSE LET i == CHOOSE j \in found : TRUE
            IN [job |-> i, sceneId |-> jobs[i].sceneId]
\* renderJob.findUnique({ where: { traceId: didTalkId } }), and the scene the
\* row names in params.sceneId
WebhookLookup(jobs, didTalkId) ==
    LET found == {i \in 1..Len(jobs) : jobs[i].traceId = didTalkId}
    IN IF found = {} THEN [job |-> NoId, sceneId |-> NoId]
       ELSE LET i == CHOOSE j \in found : TRUE
            IN [job |-> i, sceneId |-> jobs[i].paramsSceneId]

\* D-ID calls the webhook of a finished talk, possibly more than once
Webhook(t) ==
    /\ talks[t].state # "started"
    /\ talks[t].hooks < MaxWebhooks
    /\ talks' = [talks EXCEPT ![t].hooks = @ + 1]
    /\ LET status == TalkStatus(talks[t].state)
           hit == WebhookLookup(renderJobs, t)
           s == hit.sceneId
       IN IF hit.job = NoId
          THEN \* 404 RenderJob not found
               UNCHANGED <<scenes, assets, renderJobs, bus, sp, obs>>
          ELSE /\ renderJobs' = [renderJobs EXCEPT ![hit.job] =
                     [@ EXCEPT !.status = IF status = "done" THEN "completed"
                                          ELSE "failed",
                               !.errorMessage = IF status = "done" THEN @
                                                ELSE "D-ID processing failed"]]
               /\ IF s = NoId
                  THEN UNCHANGED <<scenes, assets, bus, sp, obs>>
                  ELSE IF status = "done"
                  THEN /\ scenes' = [scenes EXCEPT ![s].avatarStatus = "completed"]
                       /\ assets' = Append(assets,
                             [kind |-> "avatar_video", scene |-> s, job |-> t])
                       /\ sp' = Resumed("avatar/completed", {s})
                       /\ obs' = Note("completedEvents",
                             [name |-> "avatar/completed", scene |-> s])
                       /\ bus' = bus
                  ELSE /\ scenes' = [scenes EXCEPT ![s].avatarStatus = "failed"]
                       /\ Send(Ev("avatar/failed", s, NoId, 0, 0))
                       /\ UNCHANGED <<assets, sp, obs>>
    /\ UNCHANGED <<project, ops, tg, ag, ap, bgg, vg, vp, adg, vc, vr, sg>>

-----------------------------------------------------------------------------
(* backgroundGenerator *)

BgSteps(priority) ==
    <<"fetch-scene", "update-background-status-generating">> \o
    (CASE priority = "low" -> <<"create-gradient-background">>
       [] priority = "medium" ->
            <<"generate-nano-image", "upload-background-image",
              "create-background-asset", "update-scene-background-asset">>
       [] OTHER ->
            <<"generate-nano-image", "upload-background-image",
              "create-background-asset", "update-scene-background-asset",
              "trigger-veo-generation">>)

BgStepsOf(s) == BgSteps(scenes[s].priority)

BgCalls == {"generate-nano-image", "upload-background-image"}

BgOnly == UNCHANGED <<project, scenes, assets, renderJobs, talks, ops, bus,
                      sp, tg, ag, ap, vg, vp, adg, vc, vr, obs,
                      sg>>

BgFetchScene(s) ==
    /\ bgg[s].pc = "fetch-scene"
    /\ bgg' = [bgg EXCEPT ![s] = StepOk(@, BgStepsOf(s), "fetch-scene")]
    /\ BgOnly

\* the stage starts: nothing is read of the scene's avatarStatus
BgStatusGenerating(s) ==
    /\ bgg[s].pc = "update-background-status-generating"
    /\ scenes' = [scenes EXCEPT ![s].backgroundStatus = "generating"]
    /\ bgg' = [bgg EXCEPT ![s] =
            StepOk(@, BgStepsOf(s), "update-background-status-generating")]
    /\ obs' = Note("bgStarts",
                   [scene |-> s, avatarStatus |-> scenes[s].avatarStatus])
    /\ UNCHANGED <<project, assets, renderJobs, talks, ops, bus,
                   sp, tg, ag, ap, vg, vp, adg, vc, vr, sg>>

\* low priority: no Asset, no background/completed event
BgGradient(s) ==
    /\ bgg[s].pc = "create-gradient-background"
    /\ scenes' = [scenes EXCEPT ![s].backgroundStatus = "completed"]
    /\ bgg' = [bgg EXCEPT ![s] =
            StepOk(@, BgStepsOf(s), "create-gradient-background")]
    /\ UNCHANGED <<project, assets, renderJobs, talks, ops, bus,
                   sp, tg, ag, ap, vg, vp, adg, vc, vr, obs,
                   sg>>

BgCall(s) ==
    /\ bgg[s].pc \in BgCalls
    /\ bgg' = [bgg EXCEPT ![s] = StepOk(@, BgStepsOf(s), bgg[s].pc)]
    /\ BgOnly

BgCallThrows(s) ==
    /\ bgg[s].pc \in BgCalls
    /\ bgg' = [bgg EXCEPT ![s] = StepThrow(@, BgStepsOf(s), Retries)]
    /\ BgOnly

BgCreateAsset(s) ==
    /\ bgg[s].pc = "create-background-asset"
    /\ assets' = Append(assets,
            [kind |-> "background_image", scene |-> s, job |-> NoId])
    /\ bgg' = [bgg EXCEPT ![s] =
            [StepOk(@, BgStepsOf(s), "create-background-asset")
                EXCEPT !.asset = Len(assets) + 1, !.creates = @ + 1]]
    /\ UNCHANGED <<project, scenes, renderJobs, talks, ops, bus,
                   sp, tg, ag, ap, vg, vp, adg, vc, vr, obs,
                   sg>>

\* medium priority ends here: no background/completed event is sent
BgUpdateScene(s) ==
    /\ bgg[s].pc = "update-scene-background-asset"
    /\ scenes' = [scenes EXCEPT
            ![s].backgroundAssetId = bgg[s].asset,
            ![s].backgroundStatus =
                IF scenes[s].priority = "high" THEN "generating" ELSE "completed"]
    /\ bgg' = [bgg EXCEPT ![s] =
            StepOk(@, BgStepsOf(s), "update-scene-background-asset")]
    /\ UNCHANGED <<project, assets, renderJobs, talks, ops, bus,
                   sp, tg, ag, ap, vg, vp, adg, vc, vr, obs,
                   sg>>

BgTriggerVeo(s) ==
    /\ bgg[s].pc = "trigger-veo-generation"
    /\ bgg' = [bgg EXCEPT ![s] =
            StepOk(@, BgStepsOf(s), "trigger-veo-generation")]
    /\ Send(Ev("veo/generation.requested", s, NoId, 0, 0))
    /\ UNCHANGED <<project, scenes, assets, renderJobs, talks, ops,
                   sp, tg, ag, ap, vg, vp, adg, vc, vr, obs,
                   sg>>

-----------------------------------------------------------------------------
(* veoVideoGenerator *)

VgSteps ==
    <<"fetch-scene", "start-veo-generation", "create-veo-render-job",
      "start-veo-polling">>

VgOnly == UNCHANGED <<project, scenes, assets, renderJobs, talks, ops, bus,
                      sp, tg, ag, ap, bgg, vp, adg, vc, vr, obs,
                      sg>>

VgFetchScene(s) ==
    /\ vg[s].pc = "fetch-scene"
    /\ vg' = [vg EXCEPT ![s] = StepOk(@, VgSteps, "fetch-scene")]
    /\ VgOnly

\* generateVeoVideo(imageUrl, prompt) returns a new operation
VgStartVeo(s) ==
    /\ vg[s].pc = "start-veo-generation"
    /\ ops' = Append(ops, [scene |-> s, state |-> "running", checks |-> 0])
    /\ vg' = [vg EXCEPT ![s] =
            [StepOk(@, VgSteps, "start-veo-generation")
                EXCEPT !.job = Len(ops) + 1, !.submits = @ + 1]]
    /\ UNCHANGED <<project, scenes, assets, renderJobs, talks, bus,
                   sp, tg, ag, ap, bgg, vp, adg, vc, vr, obs,
                   sg>>

VgStartVeoThrows(s) ==
    /\ vg[s].pc = "start-veo-generation"
    /\ vg' = [vg EXCEPT ![s] = StepThrow(@, VgSteps, Retries)]
    /\ VgOnly

VgCreateRenderJob(s) ==
    /\ vg[s].pc = "create-veo-render-job"
    /\ renderJobs' = Append(renderJobs, NewRenderJob(s, ExternalId("veo", vg[s].job), "veo"))
    /\ vg' = [vg EXCEPT ![s] =
            [StepOk(@, VgSteps, "create-veo-render-job") EXCEPT !.creates = @ + 1]]
    /\ UNCHANGED <<project, scenes, assets, talks, ops, bus,
                   sp, tg, ag, ap, bgg, vp, adg, vc, vr, obs,
                   sg>>

VgStartPolling(s) ==
    /\ vg[s].pc = "start-veo-polling"
    /\ vg' = [vg EXCEPT ![s] = StepOk(@, VgSteps, "start-veo-polling")]
    /\ Send(Ev("veo/polling.requested", s, vg[s].job, 0, VeoMaxAttempts))
    /\ UNCHANGED <<project, scenes, assets, renderJobs, talks, ops,
                   sp, tg, ag, ap, bgg, vp, adg, vc, vr, obs,
                   sg>>

-----------------------------------------------------------------------------
(* Veo (external): a running operation finishes or fails *)

VeoFinishes(o) ==
    /\ ops[o].state = "running"
    /\ \E r \in {"done", "error"} : ops' = [ops EXCEPT ![o].state = r]
    /\ UNCHANGED <<project, scenes, assets, renderJobs, talks, bus,
                   sp, tg, ag, ap, bgg, vg, vp, adg, vc, vr, obs,
                   sg>>

-----------------------------------------------------------------------------
(* veoVideoPolling *)

\* variant: the attempts run out one check late
VeoPollingOffByOne(res, cur, max) ==
    IF res = "running"
    THEN IF cur > max THEN "timeout" ELSE "retry"
    ELSE IF res = "error" THEN "error" ELSE "completed"
\* the branches after check-veo-operation
VeoPollingBranch(res, cur, max) ==
    IF res = "running"
    THEN IF cur >= max THEN "timeout" ELSE "retry"
    ELSE IF res = "error" THEN "error" ELSE "completed"

VpSteps(branch) ==
    <<"check-veo-operation">> \o
    (CASE branch = "timeout" ->
            <<"mark-render-job-failed", "mark-scene-background-failed">>
       [] branch = "retry" -> <<"trigger-next-polling">>
       [] branch = "error" ->
            <<"mark-render-job-error", "mark-scene-background-error">>
       [] OTHER ->
            <<"fetch-video-and-upload", "create-background-video-asset",
              "update-scene-background-video-asset",
              "update-render-job-completed", "background-completed-video">>)

VpBranch(inv) == VeoPollingBranch(inv.res, CurrentAttempt(inv), inv.max)
VpStepsOf(inv) == VpSteps(VpBranch(inv))

VpOnly == UNCHANGED <<project, scenes, assets, renderJobs, talks, ops, bus,
                      sp, tg, ag, ap, bgg, vg, adg, vc, vr, obs,
                      sg>>

\* step.sleep("wait-before-check"), then checkVeoOperation(operationName)
VpCheckOperation(s) ==
    /\ vp[s].pc = "check-veo-operation"
    /\ LET o == vp[s].job
           withRes == [vp[s] EXCEPT !.res = ops[o].state]
       IN /\ ops' = [ops EXCEPT ![o].checks = @ + 1]
          /\ vp' = [vp EXCEPT ![s] =
                StepOk(withRes, VpStepsOf(withRes), "check-veo-operation")]
    /\ UNCHANGED <<project, scenes, assets, renderJobs, talks, bus,
                   sp, tg, ag, ap, bgg, vg, adg, vc, vr, obs,
                   sg>>

VpMarkJobFailed(s) ==
    /\ vp[s].pc \in {"mark-render-job-failed", "mark-render-job-error"}
    /\ renderJobs' = UpdateJobs(renderJobs, s, ExternalId("veo", vp[s].job), "failed",
            IF vp[s].pc = "mark-render-job-failed"
            THEN "Polling timeout" ELSE "Veo operation failed")
    /\ vp' = [vp EXCEPT ![s] = StepOk(@, VpStepsOf(@), vp[s].pc)]
    /\ UNCHANGED <<project, scenes, assets, talks, ops, bus,
                   sp, tg, ag, ap, bgg, vg, adg, vc, vr, obs,
                   sg>>

\* ..., then throw new Error(...)
VpMarkSceneFailed(s) ==
    /\ vp[s].pc \in {"mark-scene-background-failed",
                     "mark-scene-background-error"}
    /\ scenes' = [scenes EXCEPT ![s].backgroundStatus = "failed"]
    /\ vp' = [vp EXCEPT ![s] =
            [StepOk(@, VpStepsOf(@), vp[s].pc) EXCEPT !.pc = "failed"]]
    /\ UNCHANGED <<project, assets, renderJobs, talks, ops, bus,
                   sp, tg, ag, ap, bgg, vg, adg, vc, vr, obs,
                   sg>>

VpTriggerNext(s) ==
    /\ vp[s].pc = "trigger-next-polling"
    /\ vp' = [vp EXCEPT ![s] = StepOk(@, VpStepsOf(@), "trigger-next-polling")]
    /\ Send(Ev("veo/polling.requested", s, vp[s].job,
               CurrentAttempt(vp[s]) + 1, vp[s].max))
    /\ UNCHANGED <<project, scenes, assets, renderJobs, talks, ops,
                   sp, tg, ag, ap, bgg, vg, adg, vc, vr, obs,
                   sg>>

VpFetchAndUpload(s) ==
    /\ vp[s].pc = "fetch-video-and-upload"
    /\ vp' = [vp EXCEPT ![s] =
            StepOk(@, VpStepsOf(@), "fetch-video-and-upload")]
    /\ VpOnly

VpCreateAsset(s) ==
    /\ vp[s].pc = "create-background-video-asset"
    /\ assets' = Append(assets,
            [kind |-> "background_video", scene |-> s, job |-> vp[s].job])
    /\ vp' = [vp EXCEPT ![s] =
            [StepOk(@, VpStepsOf(@), "create-background-video-asset")
                EXCEPT !.asset = Len(assets) + 1, !.creates = @ + 1]]
    /\ UNCHANGED <<project, scenes, renderJobs, talks, ops, bus,
                   sp, tg, ag, ap, bgg, vg, adg, vc, vr, obs,
                   sg>>

VpUpdateScene(s) ==
    /\ vp[s].pc = "update-scene-background-video-asset"
    /\ scenes' = [scenes EXCEPT ![s].backgroundAssetId = vp[s].asset,
                                ![s].backgroundStatus = "completed"]
    /\ vp' = [vp EXCEPT ![s] =
            StepOk(@, VpStepsOf(@), "update-scene-background-video-asset")]
    /\ UNCHANGED <<project, assets, renderJobs, talks, ops, bus,
                   sp, tg, ag, ap, bgg, vg, adg, vc, vr, obs,
                   sg>>

VpJobCompleted(s) ==
    /\ vp[s].pc = "update-render-job-completed"
    /\ renderJobs' = UpdateJobs(renderJobs, s, ExternalId("veo", vp[s].job),
            "completed", "keep")
    /\ vp' = [vp EXCEPT ![s] =
            StepOk(@, VpStepsOf(@), "update-render-job-completed")]
    /\ UNCHANGED <<project, scenes, assets, talks, ops, bus,
                   sp, tg, ag, ap, bgg, vg, adg, vc, vr, obs,
                   sg>>

\* background/completed resumes the scene's waiting sceneProcessor
VpSendCompleted(s) ==
    /\ vp[s].pc = "background-completed-video"
    /\ vp' = [vp EXCEPT ![s] =
            StepOk(@, VpStepsOf(@), "background-completed-video")]
    /\ sp' = Resumed("background/completed", {s})
    /\ obs' = Note("completedEvents", [name |-> "background/completed", scene |-> s])
    /\ UNCHANGED <<project, scenes, assets, renderJobs, talks, ops, bus,
                   tg, ag, ap, bgg, vg, adg, vc, vr, sg>>

-----------------------------------------------------------------------------
(* avatarDesignGenerator *)

AdgSteps ==
    <<"fetch-project", "update-avatar-design-status-generating",
      "generate-and-upload-avatar-image", "create-avatar-design-asset",
      "update-avatar-design-status-completed",
      "notify-avatar-design-completed">>

AdgOnly == UNCHANGED <<project, scenes, assets, renderJobs, talks, ops, bus,
                       sp, tg, ag, ap, bgg, vg, vp, vc, vr, obs,
                       sg>>

\* throws unless the project is in custom avatar mode
AdgFetchProject ==
    /\ adg.pc = "fetch-project"
    /\ adg' = IF project.avatarDesignMode = "custom"
              THEN StepOk(adg, AdgSteps, "fetch-project")
              ELSE StepThrow(adg, AdgSteps, Retries)
    /\ AdgOnly

AdgStatusGenerating ==
    /\ adg.pc = "update-avatar-design-status-generating"
    /\ project' = [project EXCEPT !.avatarDesignStatus = "generating"]
    /\ adg' = StepOk(adg, AdgSteps, "update-avatar-design-status-generating")
    /\ UNCHANGED <<scenes, assets, renderJobs, talks, ops, bus,
                   sp, tg, ag, ap, bgg, vg, vp, vc, vr, obs,
                   sg>>

\* generateAvatarDesign(settings) and the upload return; submits counts the
\* calls of generateAvatarDesign, the first statement of the step
AdgGenerate ==
    /\ adg.pc = "generate-and-upload-avatar-image"
    /\ adg' = [StepOk(adg, AdgSteps, "generate-and-upload-avatar-image")
                  EXCEPT !.submits = @ + 1]
    /\ AdgOnly

\* ... or throw: a quota / not-found error marks the design failed with
\* fallbackToPreset and a new Error is thrown, any other error is thrown as
\* it is; both are plain errors to the step executor.  res remembers that
\* the invocation met a permanent error.
AdgGenerateThrows ==
    /\ adg.pc = "generate-and-upload-avatar-image"
    /\ \E shouldFallback \in BOOLEAN :
          /\ project' = IF shouldFallback
                        THEN [project EXCEPT !.avatarDesignStatus = "failed",
                                             !.fallbackToPreset = TRUE]
                        ELSE project
          /\ adg' = [StepThrow(adg, AdgSteps, Retries)
                        EXCEPT !.submits = @ + 1,
                               !.res = IF shouldFallback THEN "permanent"
                                       ELSE @]
    /\ UNCHANGED <<scenes, assets, renderJobs, talks, ops, bus,
                   sp, tg, ag, ap, bgg, vg, vp, vc, vr, obs,
                   sg>>

\* any other step may throw (the database fails)
AdgStepThrows ==
    /\ adg.pc \in {AdgSteps[i] : i \in 1..Len(AdgSteps)}
    /\ adg.pc # "generate-and-upload-avatar-image"
    /\ adg' = StepThrow(adg, AdgSteps, Retries)
    /\ AdgOnly

AdgCreateAsset ==
    /\ adg.pc = "create-avatar-design-asset"
    /\ assets' = Append(assets,
            [kind |-> "avatar_design", scene |-> NoId, job |-> NoId])
    /\ adg' = [StepOk(adg, AdgSteps, "create-avatar-design-asset")
                  EXCEPT !.asset = Len(assets) + 1, !.creates = @ + 1]
    /\ UNCHANGED <<project, scenes, renderJobs, talks, ops, bus,
                   sp, tg, ag, ap, bgg, vg, vp, vc, vr, obs,
                   sg>>

\* metadata is replaced: the fallbackToPreset marker of an earlier attempt
\* goes with it
AdgStatusCompleted ==
    /\ adg.pc = "update-avatar-design-status-completed"
    /\ project' = [project EXCEPT !.avatarDesignStatus = "completed",
                                  !.fallbackToPreset = FALSE]
    /\ adg' = StepOk(adg, AdgSteps, "update-avatar-design-status-completed")
    /\ UNCHANGED <<scenes, assets, renderJobs, talks, ops, bus,
                   sp, tg, ag, ap, bgg, vg, vp, vc, vr, obs,
                   sg>>

\* avatar-design/completed resumes every sceneProcessor of the project that
\* waits for it
AdgNotifyCompleted ==
    /\ adg.pc = "notify-avatar-design-completed"
    /\ adg' = StepOk(adg, AdgSteps, "notify-avatar-design-completed")
    /\ sp' = Resumed("avatar-design/completed", Scenes)
    /\ obs' = [obs EXCEPT !.designEvents = @ + 1]
    /\ UNCHANGED <<project, scenes, assets, renderJobs, talks, ops, bus,
                   tg, ag, ap, bgg, vg, vp, vc, vr, sg>>

-----------------------------------------------------------------------------
(* Delivery of an event to the function subscribed to it.  An event whose  *)
(* name no function is subscribed to starts nothing.  An invocation starts *)
(* when the function's earlier invocation for the same scene has ended.    *)

Deliver(e) ==
    /\ e \in bus
    /\ bus' = bus \ {e}
    /\ LET f == Subscriber(e.name)
       IN CASE f = "sceneProcessor" ->
                /\ Free(sp[e.scene])
                /\ sp' = [sp EXCEPT ![e.scene] = Started(SpSteps, e)]
                /\ UNCHANGED <<tg, ag, ap, bgg, vg, vp, adg, vc, vr, sg, obs>>
            [] f = "ttsGenerator" ->
                /\ Free(tg[e.scene])
                /\ tg' = [tg EXCEPT ![e.scene] = Started(TgSteps, e)]
                /\ UNCHANGED <<sp, ag, ap, bgg, vg, vp, adg, vc, vr, sg, obs>>
            [] f = "avatarGenerator" ->
                /\ Free(ag[e.scene])
                /\ ag' = [ag EXCEPT ![e.scene] = Started(AgSteps, e)]
                /\ UNCHANGED <<sp, tg, ap, bgg, vg, vp, adg, vc, vr, sg, obs>>
            [] f = "avatarPolling" ->
                /\ Free(ap[e.scene])
                /\ ap' = [ap EXCEPT ![e.scene] = Started(ApSteps("retry"), e)]
                /\ UNCHANGED <<sp, tg, ag, bgg, vg, vp, adg, vc, vr, sg, obs>>
            [] f = "backgroundGenerator" ->
                /\ Free(bgg[e.scene])
                /\ bgg' = [bgg EXCEPT ![e.scene] = Started(BgSteps("low"), e)]
                /\ UNCHANGED <<sp, tg, ag, ap, vg, vp, adg, vc, vr, sg, obs>>
            [] f = "veoVideoGenerator" ->
                /\ Free(vg[e.scene])
                /\ vg' = [vg EXCEPT ![e.scene] = Started(VgSteps, e)]
                /\ UNCHANGED <<sp, tg, ag, ap, bgg, vp, adg, vc, vr, sg, obs>>
            [] f = "veoVideoPolling" ->
                /\ Free(vp[e.scene])
                /\ vp' = [vp EXCEPT ![e.scene] = Started(VpSteps("retry"), e)]
                /\ UNCHANGED <<sp, tg, ag, ap, bgg, vg, adg, vc, vr, sg, obs>>
            [] f = "avatarDesignGenerator" ->
                /\ Free(adg)
                /\ adg' = Started(AdgSteps, e)
                /\ UNCHANGED <<sp, tg, ag, ap, bgg, vg, vp, vc, vr, sg, obs>>
            [] f = "videoCompositor" ->
                /\ Free(vc)
                /\ vc' = [VcIdle EXCEPT !.pc = VcSteps[1]]
                /\ obs' = [obs EXCEPT !.compositorRuns = @ + 1]
                /\ UNCHANGED <<sp, tg, ag, ap, bgg, vg, vp, adg, vr, sg>>
            [] f = "videoRender" ->
                /\ Free(vr)
                /\ vr' = [Idle EXCEPT !.pc = VrSteps[1]]
                /\ UNCHANGED <<sp, tg, ag, ap, bgg, vg, vp, adg, vc, sg, obs>>
            [] f = "scriptGenerator" ->
                /\ Free(sg)
                /\ sg' = [SgIdle EXCEPT !.pc = SgSteps[1]]
                /\ UNCHANGED <<sp, tg, ag, ap, bgg, vg, vp, adg, vc, vr, obs>>
            [] OTHER ->
                /\ obs' = Note("dropped", e.name)
                /\ UNCHANGED <<sp, tg, ag, ap, bgg, vg, vp, adg, vc, vr, sg>>
    /\ UNCHANGED <<project, scenes, assets, renderJobs, talks, ops>>

-----------------------------------------------------------------------------
(* videoCompositor, the render route and scripts/fix-rendering-status      *)

\* "video/composition.requested" arrives: no function of the repository
\* sends it, it comes from outside (the Inngest event API)
SendCompositionRequested ==
    /\ obs.composeRequested < MaxComposeRequests
    /\ Send(Ev("video/composition.requested", NoId, NoId, 0, 0))
    /\ obs' = [obs EXCEPT !.composeRequested = @ + 1]
    /\ UNCHANGED <<project, scenes, assets, renderJobs, talks, ops,
                   sp, tg, ag, ap, bgg, vg, vp, adg, vc, vr,
                   sg>>

\* orderBy: { sceneNumber: "asc" }: the scene at place k
SceneAtRank(k) ==
    CHOOSE s \in Scenes :
        Cardinality({r \in Scenes :
            scenes[r].sceneNumber < scenes[s].sceneNumber}) = k - 1

Row(s) ==
    [id |-> s, sceneNumber |-> scenes[s].sceneNumber,
     ttsStatus |-> scenes[s].ttsStatus,
     avatarStatus |-> scenes[s].avatarStatus,
     backgroundStatus |-> scenes[s].backgroundStatus]

VcOnly == UNCHANGED <<project, scenes, assets, renderJobs, talks, ops, bus,
                      sp, tg, ag, ap, bgg, vg, vp, adg, vr, obs,
                      sg>>

VcFetchProjectScenes ==
    /\ vc.pc = "fetch-project-scenes"
    /\ vc' = [vc EXCEPT !.pc = "validate-scenes-ready",
                        !.recorded = @ \cup {"fetch-project-scenes"},
                        !.snap = [k \in 1..Cardinality(Scenes) |->
                                     Row(SceneAtRank(k))]]
    /\ VcOnly

\* variant: the filter leaves avatarStatus out
SceneReadyButAvatar(row) ==
    row.ttsStatus = "completed" /\ row.backgroundStatus = "completed"
\* the filter of validate-scenes-ready
SceneReady(row) ==
    /\ row.ttsStatus = "completed"
    /\ row.avatarStatus = "completed"
    /\ row.backgroundStatus = "completed"

IncompleteScenes(snap) == {k \in 1..Len(snap) : ~SceneReady(snap[k])}

\* the scenes that the text of an error identifies: the message of
\* validate-scenes-ready carries incompleteScenes.length and nothing else
ScenesNamedBy(error) == {}

\* validate-scenes-ready returns, or throws; thrown on the data of a
\* recorded step, it is thrown again by every re-execution
VcValidateScenesReady ==
    /\ vc.pc = "validate-scenes-ready"
    /\ vc' = IF IncompleteScenes(vc.snap) # {}
             THEN [vc EXCEPT !.pc = "failed",
                      !.error = "scenes are not ready for composition",
                      !.notReady = Cardinality(IncompleteScenes(vc.snap))]
             ELSE IF Len(vc.snap) = 0
             THEN [vc EXCEPT !.pc = "failed",
                      !.error = "No scenes found for composition"]
             ELSE [vc EXCEPT !.pc = "update-project-status-rendering",
                      !.recorded = @ \cup {"validate-scenes-ready"}]
    /\ VcOnly

VcStatusRendering ==
    /\ vc.pc = "update-project-status-rendering"
    /\ project' = [project EXCEPT !.status = "rendering"]
    /\ vc' = [vc EXCEPT !.pc = "prepare-scene-data",
                        !.recorded = @ \cup {"update-project-status-rendering"}]
    /\ UNCHANGED <<scenes, assets, renderJobs, talks, ops, bus,
                   sp, tg, ag, ap, bgg, vg, vp, adg, vr, obs,
                   sg>>

\* project.scenes.map(...): one entry per fetched scene, in fetched order
VcPrepareSceneData ==
    /\ vc.pc = "prepare-scene-data"
    /\ vc' = [vc EXCEPT !.pc = "save-composition-metadata",
                        !.recorded = @ \cup {"prepare-scene-data"},
                        !.sceneData = [k \in 1..Len(vc.snap) |->
                            [scene |-> vc.snap[k].id,
                             sceneNumber |-> vc.snap[k].sceneNumber]]]
    /\ VcOnly

VcSaveMetadata ==
    /\ vc.pc = "save-composition-metadata"
    /\ project' = [project EXCEPT !.compositionData = vc.sceneData,
                                  !.hasCompositionData = TRUE]
    /\ vc' = [vc EXCEPT !.pc = "trigger-video-render",
                        !.recorded = @ \cup {"save-composition-metadata"}]
    /\ UNCHANGED <<scenes, assets, renderJobs, talks, ops, bus,
                   sp, tg, ag, ap, bgg, vg, vp, adg, vr, obs,
                   sg>>

VcTriggerRender ==
    /\ vc.pc = "trigger-video-render"
    /\ vc' = [vc EXCEPT !.pc = "done",
                        !.recorded = @ \cup {"trigger-video-render"}]
    /\ Send(Ev("video/render.requested", NoId, NoId, 0, 0))
    /\ UNCHANGED <<project, scenes, assets, renderJobs, talks, ops,
                   sp, tg, ag, ap, bgg, vg, vp, adg, vr, obs,
                   sg>>

\* scripts/fix-rendering-status.ts
FixRenderingStatus ==
    /\ project.status = "rendering"
    /\ project' = [project EXCEPT !.status = "scenes_processed"]
    /\ UNCHANGED <<scenes, assets, renderJobs, talks, ops, bus,
                   sp, tg, ag, ap, bgg, vg, vp, adg, vc, vr, obs,
                   sg>>

\* POST /api/projects/[id]/render, when ffmpeg succeeds
RenderRoute ==
    /\ project.status = "scenes_processed"
    /\ project' = [project EXCEPT !.status = "rendered"]
    /\ UNCHANGED <<scenes, assets, renderJobs, talks, ops, bus,
                   sp, tg, ag, ap, bgg, vg, vp, adg, vc, vr, obs,
                   sg>>

\* videoRender: download-scene-assets returns; execute-ffmpeg throws "not
\* implemented" on every execution, the steps after it never run
VrDownloadSceneAssets ==
    /\ vr.pc = "download-scene-assets"
    /\ vr' = StepOk(vr, VrSteps, "download-scene-assets")
    /\ UNCHANGED <<project, scenes, assets, renderJobs, talks, ops, bus,
                   sp, tg, ag, ap, bgg, vg, vp, adg, vc, obs,
                   sg>>

VrExecuteFfmpeg ==
    /\ vr.pc = "execute-ffmpeg"
    /\ vr' = [vr EXCEPT !.pc = "failed"]
    /\ UNCHANGED <<project, scenes, assets, renderJobs, talks, ops, bus,
                   sp, tg, ag, ap, bgg, vg, vp, adg, vc, obs,
                   sg>>

-----------------------------------------------------------------------------
(* Script generation: generateScript, the scriptGenerator workflow, the     *)
(* generate-script route and the soft delete of the project                 *)

Scripts(n) == UNION {[1..k -> Chars] : k \in 0..n}

\* what the script model may answer: the scripts of one or two scenes
Replies ==
    {<<a>> : a \in Scripts(MaxScriptChars)}
      \cup UNION {{<<a, b>> : b \in Scripts(MaxReplyChars - Len(a))} :
                     a \in Scripts(MaxReplyChars)}

\* what the summarising model may answer: nothing, a greeting, a text that
\* is still too long; or the call throws
Answers ==
    {[throws |-> TRUE, text |-> <<>>]}
      \cup {[throws |-> FALSE, text |-> t] :
                t \in {<<>>, <<"G">>, <<"a", " ", "a", "a", "a">>}}

\* the scenes of a reply for which validateAndSummarizeScript calls the
\* summarising model
TooLong(reply) ==
    {i \in 1..Len(reply) : Len(NoSpace(RemoveParens(reply[i]))) > SummaryBudget}

\* the validation loop of generateScript over parsedJson.scenes: the scripts
\* it leaves in parsedJson and the entries it pushed to invalidScenes
GenerateScript(reply, answers) ==
    LET processedScript(i) == RemoveParens(reply[i])
        has(i, c) == \E j \in 1..Len(processedScript(i)) :
                        processedScript(i)[j] = c
        throws(i) == i \in TooLong(reply) /\ answers[i].throws
        entries(i) ==
            (IF has(i, "G") THEN <<[scene |-> i, why |-> "greeting"]>>
             ELSE <<>>)
              \o (IF has(i, "E") THEN <<[scene |-> i, why |-> "explanation"]>>
                  ELSE <<>>)
              \o (IF throws(i) THEN <<[scene |-> i, why |-> "summary"]>>
                  ELSE <<>>)
        RECURSIVE all(_)
        all(i) == IF i > Len(reply) THEN <<>> ELSE entries(i) \o all(i + 1)
    IN [invalidScenes |-> all(1),
        scenes |-> [i \in 1..Len(reply) |->
            IF throws(i) THEN reply[i]
            ELSE ValidateAndSummarizeScript(processedScript(i),
                    IF i \in TooLong(reply) THEN answers[i].text ELSE <<>>)]]

SgOnly == UNCHANGED <<project, scenes, assets, renderJobs, talks, ops, bus,
                      sp, tg, ag, ap, bgg, vg, vp, adg, vc, vr, obs>>

\* documentValidator's last step sends script/generation.requested
RequestScriptGeneration ==
    /\ obs.scriptRequests < MaxStarts
    /\ Send(Ev("script/generation.requested", NoId, NoId, 0, 0))
    /\ obs' = [obs EXCEPT !.scriptRequests = @ + 1]
    /\ UNCHANGED <<project, scenes, assets, renderJobs, talks, ops,
                   sp, tg, ag, ap, bgg, vg, vp, adg, vc, vr, sg>>

\* fetch-project-and-document, download-pdf, convert-to-base64
SgFetch ==
    /\ sg.pc \in {"fetch-project-and-document", "download-pdf",
                  "convert-to-base64"}
    /\ sg' = StepOk(sg, SgSteps, sg.pc)
    /\ SgOnly

\* step.run("generate-script"): generateScript returns the validated script
\* or throws the error that lists invalidScenes
SgGenerateScript ==
    /\ sg.pc = "generate-script"
    /\ \E reply \in Replies : \E answers \in [TooLong(reply) -> Answers] :
          LET r == GenerateScript(reply, answers)
              forbidden == {i \in 1..Len(reply) : \E j \in 1..Len(reply[i]) :
                               reply[i][j] \in {"G", "E", "(", ")"}}
          IN sg' = IF r.invalidScenes = <<>>
                   THEN [StepOk(sg, SgSteps, "generate-script")
                           EXCEPT !.reply = reply, !.script = r.scenes,
                                  !.invalidScenes = <<>>,
                                  !.forbidden = forbidden]
                   ELSE [StepThrow(sg, SgSteps, Retries)
                           EXCEPT !.invalidScenes = r.invalidScenes,
                                  !.forbidden = forbidden]
    /\ SgOnly

\* step.run("create-scenes"): prisma.$transaction of one scene.create per
\* scene of the script, each with validateAndTruncateScript(scene.script)
SgCreateScenes ==
    /\ sg.pc = "create-scenes"
    /\ scenes' = scenes \o
          [i \in 1..Len(sg.script) |->
              [NewScene("high", i)
                 EXCEPT !.script = ValidateAndTruncateScript(sg.script[i])]]
    /\ sg' = StepOk(sg, SgSteps, "create-scenes")
    /\ obs' = [obs EXCEPT !.replyScenes = Len(sg.script)]
    /\ UNCHANGED <<project, assets, renderJobs, talks, ops, bus,
                   sp, tg, ag, ap, bgg, vg, vp, adg, vc, vr>>

\* ... or the transaction fails: no row is written
SgCreateScenesThrows ==
    /\ sg.pc = "create-scenes"
    /\ sg' = StepThrow(sg, SgSteps, Retries)
    /\ SgOnly

SgUpdateProjectStatus ==
    /\ sg.pc = "update-project-status"
    /\ project' = [project EXCEPT !.status = "script_generated"]
    /\ sg' = StepOk(sg, SgSteps, "update-project-status")
    /\ UNCHANGED <<scenes, assets, renderJobs, talks, ops, bus,
                   sp, tg, ag, ap, bgg, vg, vp, adg, vc, vr, obs>>

\* step.sendEvent("trigger-scene-processing") with scenes[0].id
SgTriggerSceneProcessing ==
    /\ sg.pc = "trigger-scene-processing"
    /\ Send(Ev("scene/process.requested", 1, NoId, 0, 0))
    /\ sg' = StepOk(sg, SgSteps, "trigger-scene-processing")
    /\ UNCHANGED <<project, scenes, assets, renderJobs, talks, ops,
                   sp, tg, ag, ap, bgg, vg, vp, adg, vc, vr, obs>>

ScriptGenerator ==
    \/ SgFetch \/ SgGenerateScript \/ SgCreateScenes \/ SgCreateScenesThrows
    \/ SgUpdateProjectStatus \/ SgTriggerSceneProcessing

\* POST /api/projects/[id]/generate-script: the reply of the model is parsed
\* and one scene.create per scene is started under Promise.all; when one of
\* them rejects the handler answers 500 and the rows of the others stay
GenerateScriptRoute ==
    /\ obs.scriptRequests < MaxStarts
    /\ \E reply \in Replies : \E created \in SUBSET (1..Len(reply)) :
          LET rows == [i \in 1..Len(reply) |->
                          [NewScene("low", i) EXCEPT !.script = reply[i]]]
              kept(i) == i \in created
          IN /\ scenes' = scenes \o SelectSeq(rows,
                                LAMBDA row : kept(row.sceneNumber))
             /\ obs' = [obs EXCEPT !.scriptRequests = @ + 1,
                                   !.replyScenes = Len(reply)]
             /\ IF created = 1..Len(reply)
                THEN /\ project' = [project EXCEPT
                                       !.status = "script_generated"]
                     /\ bus' = bus
                          \cup (IF project.avatarDesignMode = "custom"
                                THEN {Ev("avatar-design/generation.requested",
                                         NoId, NoId, 0, 0)}
                                ELSE {})
                          \cup {Ev("scene/process.requested", 1, NoId, 0, 0)}
                ELSE UNCHANGED <<project, bus>>
    /\ UNCHANGED <<assets, renderJobs, talks, ops,
                   sp, tg, ag, ap, bgg, vg, vp, adg, vc, vr, sg>>

\* DELETE /api/projects/[id]: soft delete
DeleteProject ==
    /\ ~project.deletedAt
    /\ project' = [project EXCEPT !.deletedAt = TRUE]
    /\ UNCHANGED <<scenes, assets, renderJobs, talks, ops, bus,
                   sp, tg, ag, ap, bgg, vg, vp, adg, vc, vr, sg, obs>>

-----------------------------------------------------------------------------
(* The scene pipeline: the route that starts it, the functions of the      *)
(* stages, and the two providers                                           *)

Orchestrator(s) ==
    \/ SpFetchScene(s) \/ SpCheckAvatarDesign(s) \/ SpTimeout(s)
    \/ SpTriggerTts(s) \/ SpTriggerAvatar(s) \/ SpTriggerBackground(s)
    \/ SpTriggerNext(s)

TtsStage(s) ==
    \/ TgFetchScene(s) \/ TgStatusGenerating(s) \/ TgCall(s)
    \/ TgStepThrows(s) \/ TgCreateAsset(s) \/ TgUpdateScene(s)

AvatarStage(s) ==
    \/ AgFetchSceneData(s) \/ AgDetermineAvatarUrl(s) \/ AgStatusGenerating(s)
    \/ AgCreateTalk(s) \/ AgStepThrows(s) \/ AgCreateRenderJob(s)
    \/ AgStartPolling(s)
    \/ ApCheckStatus(s) \/ ApUpdateRenderJob(s) \/ ApCall(s)
    \/ ApCreateAsset(s) \/ ApUpdateScene(s) \/ ApMarkFailed(s)
    \/ ApRetryPolling(s)

BackgroundStage(s) ==
    \/ BgFetchScene(s) \/ BgStatusGenerating(s) \/ BgGradient(s)
    \/ BgCall(s) \/ BgCallThrows(s) \/ BgCreateAsset(s) \/ BgUpdateScene(s)
    \/ BgTriggerVeo(s)
    \/ VgFetchScene(s) \/ VgStartVeo(s) \/ VgStartVeoThrows(s)
    \/ VgCreateRenderJob(s) \/ VgStartPolling(s)
    \/ VpCheckOperation(s) \/ VpMarkJobFailed(s) \/ VpMarkSceneFailed(s)
    \/ VpTriggerNext(s) \/ VpFetchAndUpload(s) \/ VpCreateAsset(s)
    \/ VpUpdateScene(s) \/ VpJobCompleted(s) \/ VpSendCompleted(s)

AvatarDesign ==
    \/ AdgFetchProject \/ AdgStatusGenerating \/ AdgGenerate
    \/ AdgGenerateThrows \/ AdgCreateAsset \/ AdgStatusCompleted
    \/ AdgNotifyCompleted \/ AdgStepThrows

Next ==
    \/ ProcessScenes
    \/ \E e \in bus : Deliver(e)
    \/ \E s \in Scenes :
          Orchestrator(s) \/ TtsStage(s) \/ AvatarStage(s) \/ BackgroundStage(s)
    \/ AvatarDesign
    \/ \E t \in 1..Len(talks) : DidFinishes(t) \/ Webhook(t)
    \/ \E o \in 1..Len(ops) : VeoFinishes(o)
    \/ SendCompositionRequested
    \/ VcFetchProjectScenes \/ VcValidateScenesReady \/ VcStatusRendering
    \/ VcPrepareSceneData \/ VcSaveMetadata \/ VcTriggerRender
    \/ VrDownloadSceneAssets \/ VrExecuteFfmpeg
    \/ FixRenderingStatus
    \/ RenderRoute
    \/ RequestScriptGeneration
    \/ ScriptGenerator
    \/ GenerateScriptRoute
    \/ DeleteProject

Spec == Init /\ [][Next]_vars

-----------------------------------------------------------------------------
(* Parts of the pipeline.  The orchestrator never looks at what a wait     *)
(* returned, so every function of a stage runs beside it and Spec is too   *)
(* large to enumerate.  A part delivers the events of some functions only  *)
(* and leaves the others' events undelivered, which Inngest may do for as  *)
(* long as it likes: each behaviour of a part is a behaviour of Spec.      *)

Delivers(F) == \E e \in bus : Subscriber(e.name) \in F /\ Deliver(e)

TtsStageNoFault(s) ==
    \/ TgFetchScene(s) \/ TgStatusGenerating(s) \/ TgCall(s)
    \/ TgCreateAsset(s) \/ TgUpdateScene(s)

AvatarGeneratorNoFault(s) ==
    \/ AgFetchSceneData(s) \/ AgDetermineAvatarUrl(s) \/ AgStatusGenerating(s)
    \/ AgCreateTalk(s) \/ AgCreateRenderJob(s) \/ AgStartPolling(s)

AvatarPolling(s) ==
    \/ ApCheckStatus(s) \/ ApUpdateRenderJob(s) \/ ApCall(s)
    \/ ApCreateAsset(s) \/ ApUpdateScene(s) \/ ApMarkFailed(s)
    \/ ApRetryPolling(s)

BackgroundNoFault(s) ==
    \/ BgFetchScene(s) \/ BgStatusGenerating(s) \/ BgGradient(s)
    \/ BgCall(s) \/ BgCreateAsset(s) \/ BgUpdateScene(s) \/ BgTriggerVeo(s)
    \/ VgFetchScene(s) \/ VgStartVeo(s)
    \/ VgCreateRenderJob(s) \/ VgStartPolling(s)
    \/ VpCheckOperation(s) \/ VpMarkJobFailed(s) \/ VpMarkSceneFailed(s)
    \/ VpTriggerNext(s) \/ VpFetchAndUpload(s) \/ VpCreateAsset(s)
    \/ VpUpdateScene(s) \/ VpJobCompleted(s) \/ VpSendCompleted(s)

NextStages ==
    \/ ProcessScenes
    \/ Delivers({"sceneProcessor", "ttsGenerator", "avatarGenerator",
                 "avatarPolling", "backgroundGenerator", "veoVideoGenerator",
                 "veoVideoPolling", "videoCompositor", "none"})
    \/ \E s \in Scenes :
          \/ Orchestrator(s) \/ TtsStageNoFault(s)
          \/ AvatarGeneratorNoFault(s) \/ AvatarPolling(s)
          \/ BackgroundNoFault(s)
    \/ \E t \in 1..Len(talks) : DidFinishes(t)
    \/ \E o \in 1..Len(ops) : VeoFinishes(o)

InitStages == InitWith(NumScenes) /\ project.avatarDesignMode = "preset"

SpecStages == InitStages /\ [][NextStages]_vars

AvatarGenerator(s) == AvatarGeneratorNoFault(s) \/ AgStepThrows(s)

NextAvatar ==
    \/ ProcessScenes
    \/ Delivers({"sceneProcessor", "ttsGenerator", "avatarGenerator",
                 "avatarDesignGenerator"})
    \/ \E s \in Scenes : Orchestrator(s) \/ TtsStage(s) \/ AvatarGenerator(s)
    \/ AvatarDesign

SpecAvatar == Init /\ [][NextAvatar]_vars

\* the avatar stage, its steps throwing or not, with its polling and the
\* D-ID webhook
NextWebhook ==
    \/ ProcessScenes
    \/ Delivers({"sceneProcessor", "ttsGenerator", "avatarGenerator",
                 "avatarPolling"})
    \/ \E s \in Scenes :
          \/ Orchestrator(s) \/ TtsStageNoFault(s)
          \/ AvatarGenerator(s) \/ AvatarPolling(s)
    \/ \E t \in 1..Len(talks) : DidFinishes(t) \/ Webhook(t)

SpecWebhook == InitStages /\ [][NextWebhook]_vars

-----------------------------------------------------------------------------
(* Composition.  The pipeline has run over every scene of a preset-avatar  *)
(* project with gradient backgrounds: a scene is ready (audio and avatar   *)
(* video stored, the three stages completed) or its talk failed at D-ID.   *)
(* sceneNumber is what the script generator's model answered, position is  *)
(* the scene's place in the answer.                                        *)

SceneKinds == {"ready", "avatar-failed"}

SettledScene(kind, number, audio, avatar) ==
    [priority |-> "low", sceneNumber |-> number,
     ttsStatus |-> "completed",
     avatarStatus |-> IF kind = "ready" THEN "completed" ELSE "failed",
     backgroundStatus |-> "completed",
     audioAssetId |-> audio,
     avatarAssetId |-> IF kind = "ready" THEN avatar ELSE NoId,
     backgroundAssetId |-> NoId]

SettledTalk(kind, s) ==
    [scene |-> s, image |-> "preset",
     state |-> IF kind = "ready" THEN "done" ELSE "error",
     checks |-> 1, hooks |-> 0, ttsStatus |-> "completed",
     ttsWasCompleted |-> TRUE, designStatus |-> "pending",
     designAsset |-> FALSE, designEvents |-> 0, designTimeout |-> FALSE]

SettledJob(kind, s) ==
    [NewRenderJob(s, ExternalId("did", s), "did") EXCEPT
        !.status = IF kind = "ready" THEN "completed" ELSE "processing"]

\* the audio Assets are rows 1..n, the avatar videos of the ready scenes
\* come after them
AvatarRow(kind, n, s) ==
    n + Cardinality({r \in 1..s : kind[r] = "ready"})

InitCompose ==
    /\ project = NewProject("preset")
    /\ \E kind \in [1..ComposeScenes -> SceneKinds] :
       \E number \in Permutations(1..ComposeScenes) :
          /\ scenes = [s \in 1..ComposeScenes |->
                SettledScene(kind[s], number[s], s,
                             AvatarRow(kind, ComposeScenes, s))]
          /\ assets =
                [a \in 1..AvatarRow(kind, ComposeScenes, ComposeScenes) |->
                    IF a <= ComposeScenes
                    THEN [kind |-> "audio", scene |-> a, job |-> NoId]
                    ELSE LET s == CHOOSE r \in 1..ComposeScenes :
                                    /\ kind[r] = "ready"
                                    /\ AvatarRow(kind, ComposeScenes, r) = a
                         IN [kind |-> "avatar_video", scene |-> s, job |-> s]]
          /\ talks = [s \in 1..ComposeScenes |-> SettledTalk(kind[s], s)]
          /\ renderJobs = [s \in 1..ComposeScenes |-> SettledJob(kind[s], s)]
    /\ ops = <<>>
    /\ bus = {}
    /\ sp = IdleAll(ComposeScenes) /\ tg = IdleAll(ComposeScenes)
    /\ ag = IdleAll(ComposeScenes) /\ ap = IdleAll(ComposeScenes)
    /\ bgg = IdleAll(ComposeScenes) /\ vg = IdleAll(ComposeScenes)
    /\ vp = IdleAll(ComposeScenes)
    /\ adg = Idle /\ vc = VcIdle /\ vr = Idle /\ sg = SgIdle
    /\ obs = NoObs

VideoCompositor ==
    \/ VcFetchProjectScenes \/ VcValidateScenesReady \/ VcStatusRendering
    \/ VcPrepareSceneData \/ VcSaveMetadata \/ VcTriggerRender

\* the composition request, the maintenance script, the render route, and
\* the pipeline started once more up to its tts stage
NextCompose ==
    \/ SendCompositionRequested
    \/ Delivers({"videoCompositor", "videoRender", "sceneProcessor",
                 "ttsGenerator", "none"})
    \/ VideoCompositor
    \/ VrDownloadSceneAssets \/ VrExecuteFfmpeg
    \/ FixRenderingStatus
    \/ RenderRoute
    \/ ProcessScenes
    \/ \E s \in Scenes : Orchestrator(s) \/ TtsStageNoFault(s)

SpecCompose == InitCompose /\ [][NextCompose]_vars

-----------------------------------------------------------------------------
(* Properties *)

\* C1: every createTalk submission of the avatar stage is for a scene whose
\* ttsStatus has already been set to completed, whatever the interleaving,
\* tts wait timeouts and retries included.
C1_TalkAfterTtsCompleted ==
    \A t \in 1..Len(talks) : talks[t].ttsWasCompleted

\* a talk was submitted although the orchestrator's tts wait ended by its
\* timeout and the avatar stage had to be retried
C1_Witness ==
    \E t \in 1..Len(talks) :
        /\ talks[t].ttsWasCompleted
        /\ "wait-for-tts" \in sp[talks[t].scene].timeouts
        /\ ag[talks[t].scene].retried

\* the orchestrator of scene s gave up waiting for the avatar design and
\* went on to the tts request without failing
ProceededAfterDesignTimeout(s) ==
    /\ "wait-for-avatar-design" \in sp[s].timeouts
    /\ sp[s].pc # "failed"
    /\ sp[s].pc = "trigger-tts" \/ "trigger-tts" \in sp[s].recorded

C2_BackgroundAfterAvatarCompleted ==
    \A b \in obs.bgStarts : b.avatarStatus = "completed"

\* the polling loop of scene s ended because its attempts ran out
ApExhausted(s) ==
    ap[s].pc = "failed" /\ "mark-avatar-timeout" \in ap[s].recorded

VpExhausted(s) ==
    vp[s].pc = "failed" /\ "mark-scene-background-failed" \in vp[s].recorded

\* C3: a polling loop started at attempt 1 with maxAttempts = N checks the
\* provider at most N times and never sends a polling event for attempt
\* N + 1; when the provider never reports done the loop ends after exactly N
\* checks with the scene's stage status set to failed.
C3_BoundedPolling ==
    /\ \A t \in 1..Len(talks) : talks[t].checks <= AvatarMaxAttempts
    /\ \A o \in 1..Len(ops) : ops[o].checks <= VeoMaxAttempts
    /\ \A e \in bus :
          /\ e.name = "avatar/polling.requested" => e.attempt <= AvatarMaxAttempts
          /\ e.name = "veo/polling.requested" => e.attempt <= VeoMaxAttempts
    /\ \A s \in Scenes :
          /\ ApExhausted(s) =>
                /\ talks[ap[s].job].checks = AvatarMaxAttempts
                /\ scenes[s].avatarStatus = "failed"
                /\ \A e \in bus : e.name = "avatar/polling.requested"
                                    => e.scene # s
          /\ VpExhausted(s) =>
                /\ ops[vp[s].job].checks = VeoMaxAttempts
                /\ scenes[s].backgroundStatus = "failed"
                /\ \A e \in bus : e.name = "veo/polling.requested"
                                    => e.scene # s

\* both loops of one scene ran out of attempts against providers that never
\* finished
C3_Witness ==
    \E s \in Scenes :
        /\ ApExhausted(s) /\ talks[ap[s].job].state = "started"
        /\ talks[ap[s].job].checks = AvatarMaxAttempts
        /\ VpExhausted(s) /\ ops[vp[s].job].state = "running"
        /\ ops[vp[s].job].checks = VeoMaxAttempts

AvatarVideosOf(t) ==
    {a \in 1..Len(assets) :
        assets[a].kind = "avatar_video" /\ assets[a].job = t}

ChainSettled ==
    /\ \A s \in Scenes : sp[s].pc = "done"
    /\ \A e \in bus : e.name \notin {"scene/process.requested",
                                     "video/compose.requested",
                                     "video/composition.requested"}

\* C5: once the orchestrators of scenes 1..N have run one after the other,
\* the event the last one emitted has started the Composition Trigger
\* exactly once and the project's status is scenes_processed.
C5_ChainEndsInComposition ==
    ChainSettled =>
        /\ obs.compositorRuns = 1
        /\ project.status = "scenes_processed"

AllCompleted(row) ==
    /\ row.ttsStatus = "completed"
    /\ row.avatarStatus = "completed"
    /\ row.backgroundStatus = "completed"

NotCompletedIn(snap) == {k \in 1..Len(snap) : ~AllCompleted(snap[k])}

VcRejected == vc.pc = "failed" /\ vc.error = "scenes are not ready for composition"

ManifestByPosition(data) ==
    /\ Len(data) = Cardinality(Scenes)
    /\ \A k \in 1..Len(data) : data[k].scene = k

\* C7: the step that ends a successful Composition Trigger leaves the
\* project with status scenes_processed and a composition manifest of one
\* entry per scene ordered by position.
C7_SuccessSetsScenesProcessed ==
    [][(vc.pc = "trigger-video-render" /\ vc'.pc = "done")
            => /\ project'.status = "scenes_processed"
               /\ project'.hasCompositionData
               /\ ManifestByPosition(project'.compositionData)]_vars

\* C8: whenever the project's status is scenes_processed every scene has
\* ttsStatus, avatarStatus and backgroundStatus completed.
C8_ScenesProcessedMeansAllCompleted ==
    project.status = "scenes_processed" =>
        \A s \in Scenes : AllCompleted(scenes[s])

-----------------------------------------------------------------------------
(* Script generation on its own: the workflow and the route, one request *)

\* a project whose document was uploaded: no scene exists yet
InitScript ==
    /\ \E mode \in {"preset", "custom"} :
          project = [NewProject(mode) EXCEPT !.status = "document_uploaded"]
    /\ scenes = <<>> /\ assets = <<>> /\ renderJobs = <<>>
    /\ talks = <<>> /\ ops = <<>> /\ bus = {}
    /\ sp = <<>> /\ tg = <<>> /\ ag = <<>> /\ ap = <<>>
    /\ bgg = <<>> /\ vg = <<>> /\ vp = <<>>
    /\ adg = Idle /\ vc = VcIdle /\ vr = Idle /\ sg = SgIdle
    /\ obs = NoObs

NextScript ==
    \/ RequestScriptGeneration
    \/ Delivers({"scriptGenerator"})
    \/ ScriptGenerator
    \/ GenerateScriptRoute

SpecScript == InitScript /\ [][NextScript]_vars

-----------------------------------------------------------------------------
(* The chain of scenes: the orchestrators of a project of ChainScenes       *)
(* scenes, with the tts and avatar stages of each scene; the project may    *)
(* be soft-deleted at any time                                              *)

InitChain == InitWith(ChainScenes) /\ project.avatarDesignMode = "preset"

NextChain ==
    \/ ProcessScenes
    \/ DeleteProject
    \/ Delivers({"sceneProcessor", "ttsGenerator", "avatarGenerator"})
    \/ \E s \in Scenes :
          \/ Orchestrator(s) \/ TtsStageNoFault(s)
          \/ AvatarGeneratorNoFault(s)

SpecChain == InitChain /\ [][NextChain]_vars

\* the stages of scene s have all completed
StagesCompleted(s) ==
    /\ scenes[s].ttsStatus = "completed"
    /\ scenes[s].avatarStatus = "completed"
    /\ scenes[s].backgroundStatus = "completed"

\* C12: the orchestrator of the scene at position k emits
\* scene/process.requested for the scene at position k + 1 only when the
\* three stage statuses of scene k are completed.
C12_NextSceneAfterCompletion ==
    [][\A s \in Scenes :
          (sp[s].pc = "trigger-next" /\ sp'[s].pc # "trigger-next"
           /\ NextScene(s) # NoId
           /\ Ev("scene/process.requested", NextScene(s), NoId, 0, 0)
                 \in bus')
             => StagesCompleted(s)]_vars

\* the waits for a stage's completion event
StageWaits == {"wait-for-tts", "wait-for-avatar", "wait-for-background"}

\* C13: once a wait for tts/completed, avatar/completed or
\* background/completed of an orchestrator has ended by timeout, that
\* orchestrator sends nothing any more: not the next stage's requested event,
\* not the next scene's scene/process.requested, not the composition event.
C13_NoEventAfterStageTimeout ==
    [][\A s \in Scenes :
          sp[s].timeouts \cap StageWaits # {}
             => ~ /\ sp[s].pc \in {"trigger-avatar", "trigger-background",
                                   "trigger-next"}
                  /\ sp'[s].pc # sp[s].pc
                  /\ bus' # bus]_vars

-----------------------------------------------------------------------------
(* RenderJob rows and the jobs submitted to the providers *)

\* the RenderJob rows that carry the identifier of the provider's n-th job
JobsOf(provider, n) ==
    {i \in 1..Len(renderJobs) :
        renderJobs[i].externalId = ExternalId(provider, n)}

\* C11 (as claimed): in every state each job submitted to D-ID or to Veo has
\* exactly one RenderJob row.
C11_ExactlyOneRowPerSubmittedJob ==
    /\ \A t \in 1..Len(talks) : Cardinality(JobsOf("did", t)) = 1
    /\ \A o \in 1..Len(ops) : Cardinality(JobsOf("veo", o)) = 1

\* C11: no external job ever has more than one RenderJob row; it has exactly
\* one from the moment the generator's create step has returned; a row
\* appears only by that step (never by a poll attempt or a webhook delivery),
\* and rows are neither removed nor given another job or scene.
C11_OneRenderJobPerJob ==
    /\ [](/\ \A t \in 1..Len(talks) : Cardinality(JobsOf("did", t)) <= 1
          /\ \A o \in 1..Len(ops) : Cardinality(JobsOf("veo", o)) <= 1
          /\ \A i \in 1..Len(renderJobs) :
                renderJobs[i].externalId[2] \in
                    1..(IF renderJobs[i].provider = "did"
                        THEN Len(talks) ELSE Len(ops))
          /\ \A s \in Scenes :
                /\ "create-render-job" \in ag[s].recorded
                      => Cardinality(JobsOf("did", ag[s].job)) = 1
                /\ "create-veo-render-job" \in vg[s].recorded
                      => Cardinality(JobsOf("veo", vg[s].job)) = 1)
    /\ [][/\ Len(renderJobs') >= Len(renderJobs)
          /\ \A i \in 1..Len(renderJobs) :
                /\ renderJobs'[i].externalId = renderJobs[i].externalId
                /\ renderJobs'[i].sceneId = renderJobs[i].sceneId
          /\ Len(renderJobs') # Len(renderJobs)
                => /\ Len(renderJobs') = Len(renderJobs) + 1
                   /\ \E s \in Scenes :
                         \/ /\ ag[s].pc = "create-render-job"
                            /\ ag'[s].creates = ag[s].creates + 1
                         \/ /\ vg[s].pc = "create-veo-render-job"
                            /\ vg'[s].creates = vg[s].creates + 1]_vars

\* the avatar generator was re-executed after a throw, its talk was polled
\* and its webhook delivered, and the talk has its one row, updated in place
C11_Witness ==
    \E s \in Scenes :
        /\ ag[s].retried /\ ag[s].job # NoId
        /\ talks[ag[s].job].checks >= 1 /\ talks[ag[s].job].hooks >= 1
        /\ Cardinality(JobsOf("did", ag[s].job)) = 1
        /\ \E i \in JobsOf("did", ag[s].job) :
              renderJobs[i].status = "completed"

\* C14: a webhook delivery with status done for a talk that the avatar stage
\* submitted and recorded in a RenderJob completes that RenderJob, creates
\* the avatar_video Asset of the talk's scene and emits avatar/completed
\* with that scene's id.
C14_WebhookDoneCompletesAvatar ==
    [][\A t \in 1..Len(talks) :
          (/\ talks'[t].hooks = talks[t].hooks + 1
           /\ TalkStatus(talks[t].state) = "done"
           /\ JobsOf("did", t) # {})
             => /\ \A i \in JobsOf("did", t) :
                      renderJobs'[i].status = "completed"
                /\ \E a \in (Len(assets) + 1)..Len(assets') :
                      /\ assets'[a].kind = "avatar_video"
                      /\ assets'[a].scene = talks[t].scene
                /\ [name |-> "avatar/completed", scene |-> talks[t].scene]
                      \in obs'.completedEvents]_vars

-----------------------------------------------------------------------------
(* Script validation *)

\* a script within `budget` characters, white space not counted, that has
\* no greeting, no explanatory phrase and no parenthesis
Compliant(script, budget) ==
    /\ Len(NoSpace(script)) <= budget
    /\ \A j \in 1..Len(script) : script[j] \notin {"G", "E", "(", ")"}

\* the script of scene i as the workflow stored it equals what the model
\* replied, and another pass of either validation leaves it as it is
StoredUnchanged(i) ==
    /\ "generate-script" \in sg.recorded => sg.script[i] = sg.reply[i]
    /\ "create-scenes" \in sg.recorded
          => /\ scenes[i].script = sg.reply[i]
             /\ ValidateAndTruncateScript(scenes[i].script) = scenes[i].script
             /\ \A a \in Answers :
                   ValidateAndSummarizeScript(RemoveParens(scenes[i].script),
                                              a.text) = scenes[i].script

C16_ForbiddenContentRejected ==
    /\ sg.recorded \cap {"generate-script", "create-scenes"} # {}
          => sg.forbidden = {}
    /\ sg.invalidScenes # <<>>
          => sg.forbidden \subseteq
                {sg.invalidScenes[k].scene : k \in 1..Len(sg.invalidScenes)}

\* C17: whenever Scenes are created from a generated script, on the workflow
\* path or on the route path and also when a creation fails, the step leaves
\* either every scene of that script or none of them.
C17_AllScenesOrNone ==
    [][Len(scenes') # Len(scenes)
          => Len(scenes') - Len(scenes) = obs'.replyScenes]_vars

\* the events that start a workflow for the project
Triggers ==
    {"scene/process.requested", "avatar-design/generation.requested",
     "tts/generation.requested", "avatar/generation.requested",
     "background/generation.requested"}

\* C18: once the project's soft-delete timestamp is set, no step emits
\* scene/process.requested, avatar-design/generation.requested or a stage's
\* requested event for it.
C18_DeletedProjectTriggersNothing ==
    [][project.deletedAt
          => \A e \in bus' \ bus : e.name \notin Triggers]_vars

-----------------------------------------------------------------------------
(* Project.status *)

\* the place of a status in draft -> document_uploaded -> script_generated
\* -> scenes_processed -> rendering -> rendered
StatusRank(status) ==
    CASE status = "draft" -> 0
      [] status = "document_uploaded" -> 1
      [] status = "script_generated" -> 2
      [] status = "scenes_processed" -> 3
      [] status = "rendering" -> 4
      [] status = "rendered" -> 5
      [] OTHER -> 6

\* C19: every change of Project.status goes forward along the progression
\* or to failed; failed is left by no operation, and rendering or rendered
\* are reached from scenes_processed or later only.
C19_StatusGoesForward ==
    [][project'.status # project.status
          => /\ project.status # "failed"
             /\ \/ project'.status = "failed"
                \/ /\ StatusRank(project'.status) > StatusRank(project.status)
                   /\ project'.status \in {"rendering", "rendered"}
                         => StatusRank(project.status) >= 3]_vars

-----------------------------------------------------------------------------
(* The stage statuses of a scene *)

\* pending, then generating / processing, then completed or failed
StageRank(status) ==
    CASE status = "pending" -> 0
      [] status \in {"generating", "processing"} -> 1
      [] OTHER -> 2

\* C20: a change of ttsStatus, avatarStatus or backgroundStatus of a scene
\* goes from pending to generating / processing, or from there (or from
\* pending) to completed or failed; completed and failed are never left.
C20_StageStatusGoesForward ==
    [][\A s \in Scenes :
          \A f \in {"ttsStatus", "avatarStatus", "backgroundStatus"} :
             scenes'[s][f] # scenes[s][f]
                => StageRank(scenes'[s][f]) > StageRank(scenes[s][f])]_vars

\* ---------------------------------------------------------------------
\* C21  Permanent errors are not retried: once generateAvatarDesign has
\* failed with a permanent error (quota exceeded, model not found) in an
\* invocation, the design status is failed and the provider is not called
\* again by that invocation.
C21_PermanentErrorNotRetried ==
    [][(adg.res = "permanent" /\ adg'.res = "permanent")
          => adg'.submits = adg.submits]_vars

\* the status part of C21 on its own: the step that meets the permanent
\* error leaves avatarDesignStatus = failed
C21_PermanentErrorMarksFailed ==
    [][(adg.res # "permanent" /\ adg'.res = "permanent")
          => project'.avatarDesignStatus = "failed"]_vars

\* ---------------------------------------------------------------------
\* C22  Failures are persisted: when an invocation of a stage workflow
\* (TTS, avatar, background) has ended in failure with its retries spent,
\* the stage status of its Scene is failed.
C22_FailedStagePersisted ==
    \A s \in Scenes :
        /\ tg[s].pc = "failed" => scenes[s].ttsStatus = "failed"
        /\ ag[s].pc = "failed" => scenes[s].avatarStatus = "failed"
        /\ bgg[s].pc = "failed" => scenes[s].backgroundStatus = "failed"

\* ---------------------------------------------------------------------
\* C23  Polling success emits completion: when a polling invocation that
\* saw the job done with a result ends, the Scene has the new Asset, its
\* stage status is completed and the stage-completion event for the Scene
\* has been emitted.
AvatarPollingSucceeds(s) ==
    /\ ap[s].pc = "update-scene-avatar-asset"
    /\ ap'[s].pc = "done"

VeoPollingSucceeds(s) ==
    /\ vp[s].pc \notin {"idle", "done", "failed"}
    /\ VpBranch(vp[s]) = "completed"
    /\ vp'[s].pc = "done"

AvatarPollingCompletion(s) ==
    AvatarPollingSucceeds(s)
       => /\ scenes'[s].avatarStatus = "completed"
          /\ scenes'[s].avatarAssetId \in 1..Len(assets')
          /\ [name |-> "avatar/completed", scene |-> s]
                \in obs'.completedEvents

VeoPollingCompletion(s) ==
    VeoPollingSucceeds(s)
       => /\ scenes'[s].backgroundStatus = "completed"
          /\ scenes'[s].backgroundAssetId \in 1..Len(assets')
          /\ [name |-> "background/completed", scene |-> s]
                \in obs'.completedEvents

C23_PollingSuccessEmitsCompletion ==
    [][\A s \in Scenes :
          AvatarPollingCompletion(s) /\ VeoPollingCompletion(s)]_vars

\* the background half of C23 on its own
C23_VeoPollingEmitsCompletion ==
    [][\A s \in Scenes : VeoPollingCompletion(s)]_vars

\* ---------------------------------------------------------------------
\* C24  Synchronous stages emit completion: when a TTS invocation, or a
\* background invocation for a low- or medium-priority Scene, ends with
\* success, the Scene has the artifact's Asset, the stage status is
\* completed and the stage-completion event for the Scene has been emitted.
TtsSucceeds(s) ==
    /\ ~Free(tg[s])
    /\ tg'[s].pc = "done"

BackgroundSucceeds(s) ==
    /\ scenes[s].priority \in {"low", "medium"}
    /\ ~Free(bgg[s])
    /\ bgg'[s].pc = "done"

TtsCompletion(s) ==
    TtsSucceeds(s)
       => /\ scenes'[s].ttsStatus = "completed"
          /\ scenes'[s].audioAssetId \in 1..Len(assets')
          /\ [name |-> "tts/completed", scene |-> s]
                \in obs'.completedEvents

BackgroundCompletion(s) ==
    BackgroundSucceeds(s)
       => /\ scenes'[s].backgroundStatus = "completed"
          /\ scenes'[s].backgroundAssetId \in 1..Len(assets')
          /\ [name |-> "background/completed", scene |-> s]
                \in obs'.completedEvents

C24_SynchronousStagesEmitCompletion ==
    [][\A s \in Scenes : TtsCompletion(s) /\ BackgroundCompletion(s)]_vars

\* what C24 has without the events: a successful TTS invocation leaves the
\* audio Asset linked and ttsStatus = completed
C24_TtsStoresAssetAndStatus ==
    [][\A s \in Scenes :
          TtsSucceeds(s)
             => /\ scenes'[s].ttsStatus = "completed"
                /\ scenes'[s].audioAssetId \in 1..Len(assets')]_vars

\* ---------------------------------------------------------------------
\* C25  Polling exhaustion marks both records: when a polling invocation
\* ends because the last allowed attempt found the job not done, the
\* Scene's stage status is failed and every RenderJob of the job is failed
\* with a timeout message; none is left processing.
AvatarPollingEnds(s, branch) ==
    /\ ~Free(ap[s])
    /\ ApBranch(ap[s]) = branch
    /\ ap[s].pc # "check-did-status"
    /\ Free(ap'[s])

VeoPollingEnds(s, branch) ==
    /\ ~Free(vp[s])
    /\ VpBranch(vp[s]) = branch
    /\ vp[s].pc # "check-veo-operation"
    /\ Free(vp'[s])

JobsFailed(jobs, message) ==
    \A i \in jobs : /\ renderJobs'[i].status = "failed"
                    /\ renderJobs'[i].errorMessage = message

AvatarExhaustion(s) ==
    AvatarPollingEnds(s, "timeout")
       => /\ scenes'[s].avatarStatus = "failed"
          /\ JobsOf("did", ap[s].job) # {}
          /\ JobsFailed(JobsOf("did", ap[s].job), "Polling timeout")

VeoExhaustion(s) ==
    VeoPollingEnds(s, "timeout")
       => /\ scenes'[s].backgroundStatus = "failed"
          /\ JobsOf("veo", vp[s].job) # {}
          /\ JobsFailed(JobsOf("veo", vp[s].job), "Polling timeout")

C25_PollingExhaustionMarksBoth ==
    [][\A s \in Scenes : AvatarExhaustion(s) /\ VeoExhaustion(s)]_vars

\* the background half of C25 on its own
C25_VeoExhaustionMarksBoth ==
    [][\A s \in Scenes : VeoExhaustion(s)]_vars

\* ---------------------------------------------------------------------
\* C26  Polling on provider error: when a polling invocation ends because
\* the provider reported the job finished with an error, the Scene's stage
\* status is failed, every RenderJob of the job is failed with an error
\* description, and the invocation has sent no polling-requested event.
NoPollingRequested(name, s) ==
    \A e \in bus' \ bus : ~(e.name = name /\ e.scene = s)

AvatarProviderError(s) ==
    AvatarPollingEnds(s, "error")
       => /\ scenes'[s].avatarStatus = "failed"
          /\ JobsOf("did", ap[s].job) # {}
          /\ \A i \in JobsOf("did", ap[s].job) :
                /\ renderJobs'[i].status = "failed"
                /\ renderJobs'[i].errorMessage # "none"
          /\ "retry-polling" \notin ap'[s].recorded
          /\ NoPollingRequested("avatar/polling.requested", s)

VeoProviderError(s) ==
    VeoPollingEnds(s, "error")
       => /\ scenes'[s].backgroundStatus = "failed"
          /\ JobsOf("veo", vp[s].job) # {}
          /\ \A i \in JobsOf("veo", vp[s].job) :
                /\ renderJobs'[i].status = "failed"
                /\ renderJobs'[i].errorMessage # "none"
          /\ "trigger-next-polling" \notin vp'[s].recorded
          /\ NoPollingRequested("veo/polling.requested", s)

C26_ProviderErrorMarksBoth ==
    [][\A s \in Scenes : AvatarProviderError(s) /\ VeoProviderError(s)]_vars

\* the background half of C26 on its own
C26_VeoProviderErrorMarksBoth ==
    [][\A s \in Scenes : VeoProviderError(s)]_vars

\* what C26 has for the avatar stage: the Scene is failed and polling stops
C26_AvatarProviderErrorStops ==
    [][\A s \in Scenes :
          AvatarPollingEnds(s, "error")
             => /\ scenes'[s].avatarStatus = "failed"
                /\ "retry-polling" \notin ap'[s].recorded
                /\ NoPollingRequested("avatar/polling.requested", s)]_vars

\* ---------------------------------------------------------------------
\* C27  Advance step: the advance step of the orchestrator of the Scene at
\* position i emits exactly one event: scene/process.requested for the
\* Scene at position i + 1 if there is one, otherwise the project's
\* composition request; never both, never its own Scene, never a later one.
\* (The bus is a set: an event equal to one that is still undelivered adds
\* nothing to it, so the step is held to put no other event on the bus.)
Advances(s) ==
    /\ sp[s].pc = "trigger-next"
    /\ "trigger-next" \in sp'[s].recorded

C27_AdvanceStep ==
    [][\A s \in Scenes :
          Advances(s)
             => LET follow ==
                        IF s < Len(scenes)
                        THEN Ev("scene/process.requested", s + 1, NoId, 0, 0)
                        ELSE Ev("video/compose.requested", NoId, NoId, 0, 0)
                IN /\ follow \in bus'
                   /\ bus' \ bus \subseteq {follow}
                   /\ obs'.composeSent = obs.composeSent
                         + (IF s < Len(scenes) THEN 0 ELSE 1)]_vars

\* both cases have happened: the first orchestrator has advanced to the
\* second Scene and the last one has asked for the composition
C27_Witness ==
    /\ Len(scenes) = ChainScenes
    /\ \A s \in Scenes : "trigger-next" \in sp[s].recorded
    /\ obs.composeSent = 1

\* ---------------------------------------------------------------------
\* C28  Script length bound at creation: every Scene that the create-scenes
\* step of the script-generation workflow writes has a script of at most
\* TruncateBudget characters, white space not counted.
CreatesScenes ==
    /\ sg.pc = "create-scenes"
    /\ "create-scenes" \in sg'.recorded

C28_ScriptWithinTruncateBudget ==
    [][CreatesScenes
          => \A i \in (Len(scenes) + 1)..Len(scenes') :
                Len(NoSpace(scenes'[i].script)) <= TruncateBudget]_vars

\* what holds instead: the stored script is at most one character over the
\* budget, the full stop that the hard cut appends
C28_ScriptWithinBudgetPlusOne ==
    [][CreatesScenes
          => \A i \in (Len(scenes) + 1)..Len(scenes') :
                Len(NoSpace(scenes'[i].script)) <= TruncateBudget + 1]_vars

\* ---------------------------------------------------------------------
\* C29  Completed stage implies linked Asset: a Scene whose ttsStatus,
\* avatarStatus or backgroundStatus is completed has the corresponding
\* asset reference set to an existing Asset.
Linked(id) == id \in 1..Len(assets)

C29_CompletedStageHasAsset ==
    \A s \in Scenes :
        /\ scenes[s].ttsStatus = "completed" => Linked(scenes[s].audioAssetId)
        /\ scenes[s].avatarStatus = "completed"
              => Linked(scenes[s].avatarAssetId)
        /\ scenes[s].backgroundStatus = "completed"
              => Linked(scenes[s].backgroundAssetId)

\* what holds of C29: the TTS and the avatar stage, and the background stage
\* of a Scene whose priority is not low
C29_CompletedStageHasAssetUnlessGradient ==
    \A s \in Scenes :
        /\ scenes[s].ttsStatus = "completed" => Linked(scenes[s].audioAssetId)
        /\ scenes[s].avatarStatus = "completed"
              => Linked(scenes[s].avatarAssetId)
        /\ (scenes[s].backgroundStatus = "completed"
               /\ scenes[s].priority # "low")
              => Linked(scenes[s].backgroundAssetId)

\* ---------------------------------------------------------------------
\* C30  RenderJob and Scene agree on the outcome: once a polling loop has
\* terminated (its last invocation has ended without asking for another
\* poll), a RenderJob of its job is completed only if the Scene's stage
\* status is completed.
AvatarLoopTerminated(s) ==
    /\ ap[s].pc \in {"done", "failed"}
    /\ ApBranch(ap[s]) # "retry"

VeoLoopTerminated(s) ==
    /\ vp[s].pc \in {"done", "failed"}
    /\ VpBranch(vp[s]) # "retry"

AvatarJobAgrees(s) ==
    AvatarLoopTerminated(s)
       => \A i \in JobsOf("did", ap[s].job) :
             renderJobs[i].status = "completed"
                => scenes[s].avatarStatus = "completed"

VeoJobAgrees(s) ==
    VeoLoopTerminated(s)
       => \A i \in JobsOf("veo", vp[s].job) :
             renderJobs[i].status = "completed"
                => scenes[s].backgroundStatus = "completed"

C30_RenderJobAgreesWithScene ==
    \A s \in Scenes : AvatarJobAgrees(s) /\ VeoJobAgrees(s)

\* the background half of C30 on its own
C30_VeoJobAgreesWithScene ==
    \A s \in Scenes : VeoJobAgrees(s)

=============================================================================
